---- MODULE Spec2Model ----
(***************************************************************************)
(* Byte-level model of the Crunch message codec: typed fields and their    *)
(* validators, the static (Packed / Aligned4 / Aligned8) and TLV wire      *)
(* layouts, the framing header, the integrity trailers and the             *)
(* Buffer / Serialize / Deserialize pipeline.                              *)
(*                                                                         *)
(* Memory is modelled as sequences of bytes; the byte at C++ offset o of a *)
(* span is element o + 1 of the sequence.  Scalars are kept as their       *)
(* little-endian object representation (a sequence of sizeof(T) bytes), so *)
(* that 64-bit values need no wide integers.                               *)
(***************************************************************************)
EXTENDS Integers, Sequences, FiniteSets, TLC

(***************************************************************************)
(* Bytes and bit operations                                                *)
(***************************************************************************)
Byte == 0..255

Max2(a, b) == IF a >= b THEN a ELSE b

Min2(a, b) == IF a <= b THEN a ELSE b

\* the element of a one-element set: The({ e(x) : x \in {v} }) is e(v) with v
\* computed once
The(S) == CHOOSE x \in S : TRUE

\* a ^ b on n-bit unsigned operands, bit by bit
RECURSIVE XorBits(_, _, _)
XorBits(a, b, n) ==
  IF n = 0 THEN 0
  ELSE (((a % 2) + (b % 2)) % 2) + 2 * XorBits(a \div 2, b \div 2, n - 1)

\* a ^ b for every pair of 4-bit operands
XorNibble == [a \in 1..16 |-> [b \in 1..16 |-> XorBits(a - 1, b - 1, 4)] \o <<>>] \o <<>>

\* a ^ b on n-bit unsigned operands, n a multiple of 4
RECURSIVE XorN(_, _, _)
XorN(a, b, n) ==
  IF n = 0 THEN 0
  ELSE XorNibble[(a % 16) + 1][(b % 16) + 1] + 16 * XorN(a \div 16, b \div 16, n - 4)

\* n zero bytes (memset(p, 0, n))
Zeros(n) == [i \in 1..n |-> 0] \o <<>>

\* the object representation of an unsigned/signed 32-bit value 0 <= v < 2^31
LE32(v) == [i \in 1..4 |-> (v \div (256 ^ (i - 1))) % 256] \o <<>>

\* a uint32_t read from 4 little-endian bytes; every value of 2^24 or more
\* is reported as 2^24 (it is only ever compared against sizes below that).
U32(bs) == IF bs[4] # 0 THEN 2 ^ 24 ELSE bs[1] + 256 * bs[2] + 65536 * bs[3]

\* bytes [off, off + n) of a memory image
Slice(mem, off, n) == [i \in 1..n |-> mem[off + i]] \o <<>>

(***************************************************************************)
(* Error values (crunch_types.hpp)                                         *)
(***************************************************************************)
NoError == [code |-> "OK", field_id |-> 0, message |-> ""]

Error_integrity ==
  [code |-> "IntegrityCheckFailed", field_id |-> 0, message |-> "integrity check failed"]

Error_validation(id, msg) == [code |-> "ValidationFailed", field_id |-> id, message |-> msg]

Error_deserialization(msg) == [code |-> "DeserializationError", field_id |-> 0, message |-> msg]

Error_invalid_message_id ==
  [code |-> "InvalidMessageId", field_id |-> 0, message |-> "invalid message id"]

Error_invalid_format ==
  [code |-> "InvalidFormat", field_id |-> 0, message |-> "invalid serialization format"]

Error_capacity_exceeded(id, msg) == [code |-> "CapacityExceeded", field_id |-> id, message |-> msg]

IsError(e) == e.code # "OK"

(***************************************************************************)
(* Integrity policies (crunch_integrity.hpp)                               *)
(***************************************************************************)
RECURSIVE crc16_shift(_, _)
crc16_shift(crc, n) ==
  IF n = 0 THEN crc
  ELSE crc16_shift(IF crc >= 32768
                   THEN XorN((crc * 2) % 65536, 4129, 16)
                   ELSE (crc * 2) % 65536, n - 1)

\* The eight shift steps of one byte, for each value of the high byte of crc
\* with the low byte 0.
CRC16_table == [h \in 1..256 |-> crc16_shift((h - 1) * 256, 8)] \o <<>>

\* One pass of the outer loop: crc ^= b << 8, then the eight shift steps.
\* The steps test and feed back bits of the high byte only, and move the
\* low byte up unchanged, so their result is the result for the high byte
\* alone XORed with the low byte moved up.
crc16_byte(crc, b) ==
  LET x == XorN(crc, b * 256, 16)
      t == CRC16_table[(x \div 256) + 1]
  IN  (XorN(t \div 256, x % 256, 8) * 256) + (t % 256)

\* the accumulator is compared first so that it is a value, not a pending
\* computation, when the next byte is taken
RECURSIVE crc16_loop(_, _, _)
crc16_loop(data, i, crc) ==
  IF crc < 0 \/ i > Len(data) THEN crc
  ELSE crc16_loop(data, i + 1, crc16_byte(crc, data[i]))

CRC16_calculate(data) ==
  LET crc == crc16_loop(data, 1, 65535)
  IN  <<(crc \div 256) % 256, crc % 256>>

RECURSIVE parity_loop(_, _, _)
parity_loop(data, i, parity) ==
  IF parity < 0 \/ i > Len(data) THEN parity
  ELSE parity_loop(data, i + 1, XorN(parity, data[i], 8))

Parity_calculate(data) == <<parity_loop(data, 1, 0)>>

IntegrityPolicies == {"None", "Parity", "CRC16"}

Integrity_size(I) == CASE I = "None" -> 0 [] I = "Parity" -> 1 [] I = "CRC16" -> 2

Integrity_calculate(I, data) ==
  CASE I = "None" -> <<>>
    [] I = "Parity" -> Parity_calculate(data)
    [] I = "CRC16" -> CRC16_calculate(data)

(***************************************************************************)
(* Schemas.  A C++ message type is described by data: the template         *)
(* arguments of its fields in declaration order.  Values mirror the        *)
(* private members of the field classes (value_, set_, buffer_,            *)
(* current_len_, items_).                                                  *)
(***************************************************************************)
V_None == [name |-> "None", n |-> 0]

V_Positive == [name |-> "Positive", n |-> 0]

V_NotZero == [name |-> "NotZero", n |-> 0]

V_Even == [name |-> "Even", n |-> 0]

V_Length(k) == [name |-> "Length", n |-> k]

V_LengthAtLeast(k) == [name |-> "LengthAtLeast", n |-> k]

V_LengthAtMost(k) == [name |-> "LengthAtMost", n |-> k]

V_IsFinite == [name |-> "IsFinite", n |-> 0]

\* Around<3, 1>
V_Around_3_1 == [name |-> "Around", n |-> 3]

ScalarT(w, rep, vals) == [kind |-> "scalar", width |-> w, rep |-> rep, validators |-> vals]

StringT(max, vals) == [kind |-> "string", max_size |-> max, validators |-> vals]

MessageT(nm) == [kind |-> "message", name |-> nm]

FieldT(id, presence, inner) ==
  [kind |-> "field", id |-> id, presence |-> presence, inner |-> inner]

ArrayT(id, elem, max, vals) ==
  [kind |-> "array", id |-> id, elem |-> elem, max_size |-> max, validators |-> vals]

MapT(id, key, val, max, vals) ==
  [kind |-> "map", id |-> id, key |-> key, value |-> val, max_size |-> max,
   validators |-> vals]

Int8(vals) == ScalarT(1, "int", vals)

Int16(vals) == ScalarT(2, "int", vals)

Int32(vals) == ScalarT(4, "int", vals)

Int64(vals) == ScalarT(8, "int", vals)

Float32(vals) == ScalarT(4, "float", vals)

Float64(vals) == ScalarT(8, "float", vals)

\* message types of the repository's tests
MyMessage ==
  [message_id |-> 305419896,
   fields |-> << FieldT(1, "Required", Int32(<<V_Positive>>)),
                 FieldT(2, "Optional", Int16(<<V_None>>)) >>]

OtherMessage ==
  [message_id |-> 2003125025,
   fields |-> << FieldT(1, "Optional", Int32(<<V_None>>)) >>]

CrossFieldMessage ==
  [message_id |-> 39321,
   fields |-> << FieldT(1, "Required", Int8(<<V_None>>)),
                 FieldT(2, "Required", Int32(<<V_Positive>>)) >>]

FloatMessage ==
  [message_id |-> 2748,
   fields |-> << FieldT(1, "Required", Float32(<<V_IsFinite>>)),
                 FieldT(2, "Optional", Float64(<<V_Around_3_1>>)) >>]

\* further instantiations of the field templates: a 2-byte scalar followed by
\* an 8-byte scalar; a string, an array, a map and a submessage; and a second
\* revision of the latter (same message_id, looser validators, one more field).
WideMessage ==
  [message_id |-> 2660,
   fields |-> << FieldT(1, "Optional", Int16(<<V_None>>)),
                 FieldT(2, "Optional", Int64(<<V_None>>)) >>]

InnerMessage ==
  [message_id |-> 4369,
   fields |-> << FieldT(1, "Required", Int8(<<V_Positive>>)) >>]

BoxMessage ==
  [message_id |-> 8738,
   fields |-> << FieldT(1, "Optional", StringT(3, <<V_LengthAtLeast(2)>>)),
                 ArrayT(2, Int8(<<V_None>>), 2, <<V_None>>),
                 MapT(3, Int8(<<V_None>>), Int8(<<V_Positive>>), 2, <<V_None>>),
                 FieldT(4, "Optional", MessageT("InnerMessage")) >>]

BoxMessageV2 ==
  [message_id |-> 8738,
   fields |-> << FieldT(1, "Optional", StringT(3, <<V_None>>)),
                 ArrayT(2, Int8(<<V_None>>), 2, <<V_None>>),
                 MapT(3, Int8(<<V_None>>), Int8(<<V_None>>), 2, <<V_None>>),
                 FieldT(4, "Optional", MessageT("InnerMessage")),
                 FieldT(5, "Optional", Int8(<<V_None>>)) >>]

\* the name of the twin of a message type whose fields carry no validators
RawName(nm) == nm \o "Raw"

\* a field type with every validator replaced by None
RECURSIVE WithoutValidators(_)
WithoutValidators(t) ==
  CASE t.kind = "scalar" -> [t EXCEPT !.validators = <<V_None>>]
    [] t.kind = "string" -> [t EXCEPT !.validators = <<V_None>>]
    [] t.kind = "message" -> MessageT(RawName(t.name))
    [] t.kind = "field" -> [t EXCEPT !.inner = WithoutValidators(t.inner)]
    [] t.kind = "array" ->
         [t EXCEPT !.elem = WithoutValidators(t.elem), !.validators = <<V_None>>]
    [] t.kind = "map" ->
         [t EXCEPT !.key = WithoutValidators(t.key), !.value = WithoutValidators(t.value),
                   !.validators = <<V_None>>]

Raw(def) ==
  [message_id |-> def.message_id,
   fields |-> [i \in 1..Len(def.fields) |-> WithoutValidators(def.fields[i])] \o <<>>]

MessageDefs ==
  [MyMessage |-> MyMessage, OtherMessage |-> OtherMessage,
   CrossFieldMessage |-> CrossFieldMessage, FloatMessage |-> FloatMessage,
   WideMessage |-> WideMessage, InnerMessage |-> InnerMessage,
   BoxMessage |-> BoxMessage, BoxMessageV2 |-> BoxMessageV2,
   MyMessageRaw |-> Raw(MyMessage), OtherMessageRaw |-> Raw(OtherMessage),
   CrossFieldMessageRaw |-> Raw(CrossFieldMessage), FloatMessageRaw |-> Raw(FloatMessage),
   WideMessageRaw |-> Raw(WideMessage), InnerMessageRaw |-> Raw(InnerMessage),
   BoxMessageRaw |-> Raw(BoxMessage), BoxMessageV2Raw |-> Raw(BoxMessageV2)]

MessageNames == DOMAIN MessageDefs

Fields(nm) == MessageDefs[nm].fields

message_id(nm) == MessageDefs[nm].message_id

NumFields(nm) == Len(Fields(nm))

\* value-initialised objects: Scalar{}, String{}, Field{}, ArrayField{},
\* MapField{}, Message{}
RECURSIVE DefaultValue(_)
DefaultValue(t) ==
  CASE t.kind = "scalar" -> Zeros(t.width)
    [] t.kind = "string" -> [buffer_ |-> Zeros(t.max_size), current_len_ |-> 0]
    [] t.kind = "field" -> [value_ |-> DefaultValue(t.inner), set_ |-> FALSE]
    [] t.kind = "array" ->
         [items_ |-> [i \in 1..t.max_size |-> DefaultValue(t.elem)], current_len_ |-> 0]
    [] t.kind = "map" ->
         [items_ |-> [i \in 1..t.max_size |->
                        [first |-> DefaultValue(t.key), second |-> DefaultValue(t.value)]],
          current_len_ |-> 0]
    [] t.kind = "message" ->
         [i \in 1..NumFields(t.name) |-> DefaultValue(Fields(t.name)[i])]

DefaultMessage(nm) == DefaultValue(MessageT(nm))

\* String::get(): the view of the first current_len_ bytes
String_get(s) == SubSeq(s.buffer_, 1, s.current_len_)

\* the value of the object representation of a signed integer of at most 4 bytes
SignedValue(bs) ==
  LET w == Len(bs)
      top == IF bs[w] >= 128 THEN bs[w] - 256 ELSE bs[w]
      low == [i \in 1..(w - 1) |-> bs[i] * (256 ^ (i - 1))]
      sum[i \in 0..(w - 1)] == IF i = 0 THEN 0 ELSE sum[i - 1] + low[i]
  IN  sum[w - 1] + top * (256 ^ (w - 1))

\* static_cast<ScalarType>(id): the object representation of a small
\* non-negative integer in w bytes
IntAsBytes(v, w) ==
  [i \in 1..w |-> IF i <= 4 THEN (v \div (256 ^ (i - 1))) % 256 ELSE 0] \o <<>>

(***************************************************************************)
(* Validators (crunch_validators.hpp) and validation                       *)
(***************************************************************************)
\* std::isfinite on the representation of a float (4 bytes) or double (8)
IsFiniteRep(x) ==
  IF Len(x) = 4 THEN ((x[4] % 128) * 2) + (x[3] \div 128) # 255
  ELSE ((x[8] % 128) * 16) + (x[7] \div 16) # 2047

\* std::abs(value - 3) <= 1 on the representation of a double: exactly the
\* doubles from 2.0 (0x4000000000000000) to 4.0 (0x4010000000000000)
Around_3_1_Rep(x) ==
  /\ x[8] = 64
  /\ \/ x[7] < 16
     \/ x[7] = 16 /\ \A i \in 1..6 : x[i] = 0

\* Validators::Check(value, field_id).  A scalar is passed as its bytes, a
\* string as its characters, an array or map as its live elements.
Check(vd, x, id) ==
  CASE vd.name = "None" -> NoError
    [] vd.name = "Positive" ->
         IF x[Len(x)] < 128 THEN NoError ELSE Error_validation(id, "must be >= 0")
    [] vd.name = "NotZero" ->
         IF \E i \in 1..Len(x) : x[i] # 0 THEN NoError
         ELSE Error_validation(id, "must be != 0")
    [] vd.name = "Even" ->
         IF x[1] % 2 = 0 THEN NoError ELSE Error_validation(id, "must be even")
    [] vd.name = "IsFinite" ->
         IF IsFiniteRep(x) THEN NoError ELSE Error_validation(id, "must be finite")
    [] vd.name = "Around" ->
         IF Around_3_1_Rep(x) THEN NoError
         ELSE Error_validation(id, "must be around target")
    [] vd.name = "Length" ->
         IF Len(x) = vd.n THEN NoError ELSE Error_validation(id, "length mismatch")
    [] vd.name = "LengthAtLeast" ->
         IF Len(x) >= vd.n THEN NoError
         ELSE Error_validation(id, "length must be at least N")
    [] vd.name = "LengthAtMost" ->
         IF Len(x) <= vd.n THEN NoError
         ELSE Error_validation(id, "length must be at most N")

\* for (result : {Validators::Check(v, id)...}) return the first error
RECURSIVE FirstCheck(_, _, _, _)
FirstCheck(vals, i, x, id) ==
  IF i > Len(vals) THEN NoError
  ELSE IF IsError(Check(vals[i], x, id)) THEN Check(vals[i], x, id)
  ELSE FirstCheck(vals, i + 1, x, id)

\* Scalar::Validate(ScalarType v, FieldId id = 0)
Scalar_Validate(t, v, id) == FirstCheck(t.validators, 1, v, id)

\* String::Validate(std::string_view v, FieldId id = 0)
String_Validate(t, sv, id) == FirstCheck(t.validators, 1, sv, id)

\* the Validate() member of a message type (cross-field rules)
MessageHook(nm, m) ==
  IF nm = "CrossFieldMessage"
     /\ m[1].set_ /\ SignedValue(m[1].value_) = 1 /\ SignedValue(m[2].value_) <= 100
  THEN Error_validation(2, "mode 1 requires value > 100")
  ELSE NoError

\* value.Validate() with no argument: the id defaults to 0
Value_Validate(t, x) ==
  CASE t.kind = "scalar" -> Scalar_Validate(t, x, 0)
    [] t.kind = "string" -> String_Validate(t, String_get(x), 0)
    [] t.kind = "message" -> MessageHook(t.name, x)

\* a presence check that treats every field as Required
validate_presence_AnyPresence(t, f) ==
  IF ~f.set_
  THEN Error_validation(t.id, "field is required but not set")
  ELSE NoError

\* Field::validate_presence -> Required/Optional::check_presence(set_, Id)
validate_presence(t, f) ==
  IF t.presence = "Required" /\ ~f.set_
  THEN Error_validation(t.id, "field is required but not set")
  ELSE NoError

\* Field::Validate
Field_Validate(t, f) == IF ~f.set_ THEN NoError ELSE Value_Validate(t.inner, f.value_)

\* items_[i].Validate(Id) of ArrayField::Validate.  For a Scalar element the
\* call binds to the static Validate(ScalarType v, FieldId id = 0): the value
\* checked is the field id converted to the element type, reported with id 0.
Array_ElementValidate(t, e) ==
  CASE t.elem.kind = "scalar" ->
         Scalar_Validate(t.elem, IntAsBytes(t.id, t.elem.width), 0)
    [] t.elem.kind = "string" -> String_Validate(t.elem, String_get(e), t.id)
    [] t.elem.kind = "message" -> MessageHook(t.elem.name, e)

RECURSIVE Array_FirstElementError(_, _, _)
Array_FirstElementError(t, a, i) ==
  IF i > a.current_len_ THEN NoError
  ELSE IF IsError(Array_ElementValidate(t, a.items_[i]))
       THEN Array_ElementValidate(t, a.items_[i])
  ELSE Array_FirstElementError(t, a, i + 1)

ArrayField_Validate(t, a) ==
  IF IsError(Array_FirstElementError(t, a, 1)) THEN Array_FirstElementError(t, a, 1)
  ELSE FirstCheck(t.validators, 1, SubSeq(a.items_, 1, a.current_len_), t.id)

RECURSIVE Map_FirstPairError(_, _, _)
Map_FirstPairError(t, m, i) ==
  IF i > m.current_len_ THEN NoError
  ELSE IF IsError(Value_Validate(t.key, m.items_[i].first))
       THEN Value_Validate(t.key, m.items_[i].first)
  ELSE IF IsError(Value_Validate(t.value, m.items_[i].second))
       THEN Value_Validate(t.value, m.items_[i].second)
  ELSE Map_FirstPairError(t, m, i + 1)

MapField_Validate(t, m) ==
  IF IsError(Map_FirstPairError(t, m, 1)) THEN Map_FirstPairError(t, m, 1)
  ELSE FirstCheck(t.validators, 1, SubSeq(m.items_, 1, m.current_len_), t.id)

RECURSIVE Validate(_, _)
RECURSIVE ValidateField(_, _)
RECURSIVE Validate_fields(_, _, _)

\* detail::ValidateField
ValidateField(t, f) ==
  CASE t.kind = "array" -> ArrayField_Validate(t, f)
    [] t.kind = "map" -> MapField_Validate(t, f)
    [] t.kind = "field" ->
         IF IsError(validate_presence(t, f)) THEN validate_presence(t, f)
         ELSE IF t.inner.kind = "message"
              THEN (IF f.set_ THEN Validate(t.inner.name, f.value_) ELSE NoError)
         ELSE Field_Validate(t, f)

Validate_fields(nm, m, i) ==
  IF i > NumFields(nm) THEN NoError
  ELSE IF IsError(ValidateField(Fields(nm)[i], m[i])) THEN ValidateField(Fields(nm)[i], m[i])
  ELSE Validate_fields(nm, m, i + 1)

\* a Validate that evaluates the message's own Validate() before the fields
Validate_HookFirst(nm, m) ==
  IF IsError(MessageHook(nm, m)) THEN MessageHook(nm, m)
  ELSE Validate_fields(nm, m, 1)

\* detail::Validate / Crunch::Validate: the fields in declaration order, then
\* the message's own Validate()
Validate(nm, m) ==
  IF IsError(Validate_fields(nm, m, 1)) THEN Validate_fields(nm, m, 1)
  ELSE MessageHook(nm, m)

(***************************************************************************)
(* Equality (operator==)                                                   *)
(***************************************************************************)
IsNaNRep(x) ==
  IF Len(x) = 4
  THEN ~IsFiniteRep(x) /\ ((x[3] % 128) # 0 \/ x[2] # 0 \/ x[1] # 0)
  ELSE ~IsFiniteRep(x) /\ ((x[7] % 16) # 0 \/ \E i \in 1..6 : x[i] # 0)

IsZeroRep(x) == (x[Len(x)] % 128) = 0 /\ \A i \in 1..(Len(x) - 1) : x[i] = 0

\* Scalar::operator== : value_ == other.value_ (IEEE comparison for floats)
Scalar_eq(t, a, b) ==
  IF t.rep = "float"
  THEN ~IsNaNRep(a) /\ ~IsNaNRep(b) /\ (a = b \/ (IsZeroRep(a) /\ IsZeroRep(b)))
  ELSE a = b

\* String::operator== : get() == other.get()
String_eq(a, b) == String_get(a) = String_get(b)

RECURSIVE Value_eq(_, _, _)

\* Field::operator==
Field_eq(t, a, b) ==
  IF a.set_ # b.set_ THEN FALSE
  ELSE IF ~a.set_ THEN TRUE
  ELSE Value_eq(t.inner, a.value_, b.value_)

\* ArrayField::operator==
ArrayField_eq(t, a, b) ==
  /\ a.current_len_ = b.current_len_
  /\ \A i \in 1..a.current_len_ : Value_eq(t.elem, a.items_[i], b.items_[i])

\* MapField::has_entry: the first entry with an equal key holds an equal value
has_entry(t, m, key, val) ==
  \E j \in 1..m.current_len_ :
    /\ Value_eq(t.key, m.items_[j].first, key)
    /\ \A k \in 1..(j - 1) : ~Value_eq(t.key, m.items_[k].first, key)
    /\ Value_eq(t.value, m.items_[j].second, val)

\* MapField::operator==
MapField_eq(t, a, b) ==
  /\ a.current_len_ = b.current_len_
  /\ \A i \in 1..a.current_len_ : has_entry(t, b, a.items_[i].first, a.items_[i].second)

\* the defaulted operator== of a message compares the fields member-wise
Value_eq(t, a, b) ==
  CASE t.kind = "scalar" -> Scalar_eq(t, a, b)
    [] t.kind = "string" -> String_eq(a, b)
    [] t.kind = "field" -> Field_eq(t, a, b)
    [] t.kind = "array" -> ArrayField_eq(t, a, b)
    [] t.kind = "map" -> MapField_eq(t, a, b)
    [] t.kind = "message" ->
         \A i \in 1..NumFields(t.name) : Value_eq(Fields(t.name)[i], a[i], b[i])

Message_eq(nm, a, b) == Value_eq(MessageT(nm), a, b)

(***************************************************************************)
(* Framing header (crunch_types.hpp, crunch_header.hpp)                    *)
(***************************************************************************)
StandardHeaderSize == 6

CrunchVersion == 3

Format_Packed == 1

Format_Aligned4 == 2

Format_Aligned8 == 3

Format_TLV == 4

\* the serialization policies: StaticLayout<1>, StaticLayout<4>,
\* StaticLayout<8> and TlvLayout
SerdesPolicies == {"Packed", "Aligned4", "Aligned8", "TLV"}

Alignment(S) == CASE S = "Packed" -> 1 [] S = "Aligned4" -> 4 [] S = "Aligned8" -> 8

\* Serdes::GetFormat()
GetFormat(S) ==
  CASE S = "Packed" -> Format_Packed
    [] S = "Aligned4" -> Format_Aligned4
    [] S = "Aligned8" -> Format_Aligned8
    [] S = "TLV" -> Format_TLV

\* WriteHeader: the 6 bytes written at the start of the output
WriteHeader(nm, S) == <<CrunchVersion, GetFormat(S)>> \o LE32(message_id(nm))

\* GetHeader on the first 6 bytes of the input
GetHeader(input) ==
  [version |-> input[1], format |-> input[2], message_id |-> Slice(input, 2, 4)]

\* a check that reports a format mismatch as a message-id mismatch
ValidateHeader_FormatAsId(nm, S, input) ==
  IF Len(input) < StandardHeaderSize
  THEN Error_deserialization("buffer too small for header")
  ELSE IF GetHeader(input).version # CrunchVersion
  THEN Error_deserialization("unsupported crunch version")
  ELSE IF GetHeader(input).format # GetFormat(S)
          \/ GetHeader(input).message_id # LE32(message_id(nm))
  THEN Error_invalid_message_id
  ELSE NoError

\* ValidateHeader: the error, or NoError when the header is accepted
ValidateHeader(nm, S, input) ==
  IF Len(input) < StandardHeaderSize
  THEN Error_deserialization("buffer too small for header")
  ELSE IF GetHeader(input).version # CrunchVersion
  THEN Error_deserialization("unsupported crunch version")
  ELSE IF GetHeader(input).format # GetFormat(S)
  THEN Error_invalid_format
  ELSE IF GetHeader(input).message_id # LE32(message_id(nm))
  THEN Error_invalid_message_id
  ELSE NoError

(***************************************************************************)
(* Static layout (crunch_static_layout.hpp), Alignment A in {1, 4, 8}      *)
(***************************************************************************)
SizeofMessageId == 4

SizeofLength == 4

\* (value + alignment - 1) & ~(alignment - 1)
align_up(value, alignment) == ((value + alignment - 1) \div alignment) * alignment

\* calculate_padding<T>(offset) with sz = sizeof(T)
calculate_padding(A, sz, offset) ==
  LET align == Min2(sz, A) IN (align - (offset % align)) % align

PayloadStartOffset(A) == align_up(StandardHeaderSize, A)

RECURSIVE calculate_value_end_offset(_, _, _)
RECURSIVE calculate_fields_end_offset(_, _, _, _)
RECURSIVE calculate_elements_end_offset(_, _, _, _)
RECURSIVE calculate_pairs_end_offset(_, _, _, _)

calculate_scalar_end_offset(A, t, offset) ==
  offset + calculate_padding(A, t.width, offset) + t.width

calculate_string_end_offset(A, t, offset) ==
  offset + calculate_padding(A, SizeofLength, offset) + SizeofLength + t.max_size

\* calculate_payload_size(Message{}): the field offsets start again at 0
calculate_payload_size(A, nm) == calculate_fields_end_offset(A, nm, 1, 0)

calculate_message_end_offset(A, t, offset) ==
  offset + calculate_padding(A, A, offset) + SizeofMessageId + calculate_payload_size(A, t.name)

calculate_array_end_offset(A, t, offset) ==
  calculate_elements_end_offset(A, t.elem, t.max_size,
    offset + calculate_padding(A, SizeofLength, offset) + SizeofLength)

calculate_map_end_offset(A, t, offset) ==
  calculate_pairs_end_offset(A, t, t.max_size,
    offset + calculate_padding(A, SizeofLength, offset) + SizeofLength)

calculate_value_end_offset(A, t, offset) ==
  CASE t.kind = "string" -> calculate_string_end_offset(A, t, offset)
    [] t.kind = "message" -> calculate_message_end_offset(A, t, offset)
    [] t.kind = "array" -> calculate_array_end_offset(A, t, offset)
    [] t.kind = "map" -> calculate_map_end_offset(A, t, offset)
    [] t.kind = "scalar" -> calculate_scalar_end_offset(A, t, offset)

calculate_field_end_offset(A, t, offset) ==
  IF t.kind = "field" THEN calculate_value_end_offset(A, t.inner, offset + 1)
  ELSE calculate_value_end_offset(A, t, offset)

\* fields i.. of message type nm, starting at offset
calculate_fields_end_offset(A, nm, i, offset) ==
  IF i > NumFields(nm) THEN offset
  ELSE calculate_fields_end_offset(A, nm, i + 1,
         calculate_field_end_offset(A, Fields(nm)[i], offset))

\* n element slots
calculate_elements_end_offset(A, te, n, offset) ==
  IF n = 0 THEN offset
  ELSE calculate_elements_end_offset(A, te, n - 1, calculate_value_end_offset(A, te, offset))

\* n key/value slot pairs
calculate_pairs_end_offset(A, t, n, offset) ==
  IF n = 0 THEN offset
  ELSE calculate_pairs_end_offset(A, t, n - 1,
         calculate_value_end_offset(A, t.value,
           calculate_value_end_offset(A, t.key, offset)))

\* StaticLayout<A>::Size<Message>()
Static_Size(A, nm) == PayloadStartOffset(A) + SizeofMessageId + calculate_payload_size(A, nm)

\* The serialize_* operators return the bytes stored at offset, offset + 1,
\* ...; the offset returned by the C++ function is offset + Len(result).
RECURSIVE Static_serialize_value(_, _, _, _)
RECURSIVE Static_serialize_fields(_, _, _, _, _)
RECURSIVE Static_serialize_elements(_, _, _, _, _)
RECURSIVE Static_serialize_pairs(_, _, _, _, _)
RECURSIVE Static_zero_slots(_, _, _, _)
RECURSIVE Static_zero_pairs(_, _, _, _)

Static_serialize_scalar(A, t, v, offset) ==
  Zeros(calculate_padding(A, t.width, offset)) \o v

Static_serialize_string(A, t, v, offset) ==
  Zeros(calculate_padding(A, SizeofLength, offset)) \o LE32(v.current_len_) \o v.buffer_

Static_serialize_message(A, t, v, offset) ==
  LET padding == calculate_padding(A, A, offset)
  IN  Zeros(padding) \o LE32(message_id(t.name))
        \o Static_serialize_fields(A, t.name, v, 1, offset + padding + SizeofMessageId)

Static_serialize_array(A, t, v, offset) ==
  LET padding == calculate_padding(A, SizeofLength, offset)
      live == Static_serialize_elements(A, t.elem, v, 1, offset + padding + SizeofLength)
  IN  Zeros(padding) \o LE32(v.current_len_) \o live
        \o Static_zero_slots(A, t.elem, t.max_size - v.current_len_,
                             offset + padding + SizeofLength + Len(live))

Static_serialize_map(A, t, v, offset) ==
  LET padding == calculate_padding(A, SizeofLength, offset)
      live == Static_serialize_pairs(A, t, v, 1, offset + padding + SizeofLength)
  IN  Zeros(padding) \o LE32(v.current_len_) \o live
        \o Static_zero_pairs(A, t, t.max_size - v.current_len_,
                             offset + padding + SizeofLength + Len(live))

Static_serialize_value(A, t, v, offset) ==
  CASE t.kind = "string" -> Static_serialize_string(A, t, v, offset)
    [] t.kind = "message" -> Static_serialize_message(A, t, v, offset)
    [] t.kind = "array" -> Static_serialize_array(A, t, v, offset)
    [] t.kind = "map" -> Static_serialize_map(A, t, v, offset)
    [] t.kind = "scalar" -> Static_serialize_scalar(A, t, v, offset)

Static_serialize_field(A, t, f, offset) ==
  IF t.kind # "field" THEN Static_serialize_value(A, t, f, offset)
  ELSE IF f.set_ THEN <<1>> \o Static_serialize_value(A, t.inner, f.value_, offset + 1)
  ELSE <<0>> \o Zeros(calculate_value_end_offset(A, t.inner, offset + 1) - (offset + 1))

Static_serialize_fields(A, nm, m, i, offset) ==
  IF i > NumFields(nm) THEN <<>>
  ELSE LET b == Static_serialize_field(A, Fields(nm)[i], m[i], offset)
       IN  b \o Static_serialize_fields(A, nm, m, i + 1, offset + Len(b))

\* elements i .. current_len_ of an array
Static_serialize_elements(A, te, v, i, offset) ==
  IF i > v.current_len_ THEN <<>>
  ELSE LET b == Static_serialize_value(A, te, v.items_[i], offset)
       IN  b \o Static_serialize_elements(A, te, v, i + 1, offset + Len(b))

\* pairs i .. current_len_ of a map
Static_serialize_pairs(A, t, v, i, offset) ==
  IF i > v.current_len_ THEN <<>>
  ELSE LET k == Static_serialize_value(A, t.key, v.items_[i].first, offset)
           w == Static_serialize_value(A, t.value, v.items_[i].second, offset + Len(k))
       IN  k \o w \o Static_serialize_pairs(A, t, v, i + 1, offset + Len(k) + Len(w))

\* zero fill of n unused element slots
Static_zero_slots(A, te, n, offset) ==
  IF n = 0 THEN <<>>
  ELSE LET end == calculate_value_end_offset(A, te, offset)
       IN  Zeros(end - offset) \o Static_zero_slots(A, te, n - 1, end)

\* zero fill of n unused key/value slot pairs
Static_zero_pairs(A, t, n, offset) ==
  IF n = 0 THEN <<>>
  ELSE LET end == calculate_value_end_offset(A, t.value,
                    calculate_value_end_offset(A, t.key, offset))
       IN  Zeros(end - offset) \o Static_zero_pairs(A, t, n - 1, end)

\* StaticLayout<A>::Serialize: the bytes stored from offset StandardHeaderSize
\* on; the value returned is StandardHeaderSize + Len(result)
Static_Serialize(A, nm, msg) ==
  Zeros(PayloadStartOffset(A) - StandardHeaderSize) \o LE32(message_id(nm))
    \o Static_serialize_fields(A, nm, msg, 1, PayloadStartOffset(A) + SizeofMessageId)

\* the byte at C++ offset i of a memory image (0 past the modelled memory)
Rd(input, i) == IF i < Len(input) THEN input[i + 1] ELSE 0

\* memcpy(&x, input.data() + offset, n)
RdN(input, offset, n) == [i \in 1..n |-> Rd(input, offset + i - 1)] \o <<>>

\* The deserialize_* operators return the object as the C++ function leaves
\* it (v), the offset it returns (offset) and the error (err, NoError on
\* success).  On an error v holds whatever had been stored up to that point.
Ok(v, offset) == [v |-> v, offset |-> offset, err |-> NoError]

Fail(v, offset, e) == [v |-> v, offset |-> offset, err |-> e]

RECURSIVE Static_deserialize_value(_, _, _, _, _, _)
RECURSIVE Static_deserialize_fields(_, _, _, _, _, _)
RECURSIVE Static_deserialize_elements(_, _, _, _, _, _, _)
RECURSIVE Static_deserialize_pairs(_, _, _, _, _, _, _)

Static_deserialize_scalar(A, t, value, set, input, offset) ==
  LET at == offset + calculate_padding(A, t.width, offset)
  IN  Ok(IF set THEN RdN(input, at, t.width) ELSE value, at + t.width)

Static_deserialize_string(A, t, value, set, input, offset) ==
  LET at == offset + calculate_padding(A, SizeofLength, offset)
      len == U32(RdN(input, at, SizeofLength))
  IN  IF set /\ len > t.max_size
      THEN Fail(value, at + SizeofLength,
                Error_capacity_exceeded(0, "deserialized string too long"))
      ELSE IF set
      THEN Ok([buffer_ |-> RdN(input, at + SizeofLength, t.max_size), current_len_ |-> len],
              at + SizeofLength + t.max_size)
      ELSE Ok([buffer_ |-> Zeros(t.max_size), current_len_ |-> 0],
              at + SizeofLength + t.max_size)

Static_deserialize_message(A, t, value, set, input, offset) ==
  LET at == offset + calculate_padding(A, A, offset)
      msg_id == RdN(input, at, SizeofMessageId)
  IN  IF set /\ msg_id # LE32(message_id(t.name))
      THEN Fail(value, at, Error_invalid_message_id)
      ELSE IF set
      THEN Static_deserialize_fields(A, t.name, value, 1, input, at + SizeofMessageId)
      ELSE Ok(value, at + SizeofMessageId + calculate_payload_size(A, t.name))

Static_deserialize_array(A, t, value, set, input, offset) ==
  LET array_end == calculate_array_end_offset(A, t, offset)
      at == offset + calculate_padding(A, SizeofLength, offset)
      len == U32(RdN(input, at, SizeofLength))
  IN  IF ~set THEN Ok([value EXCEPT !.current_len_ = 0], array_end)
      ELSE IF len > t.max_size
      THEN Fail(value, at + SizeofLength,
                Error_capacity_exceeded(0, "array capacity exceeded"))
      ELSE The({ IF IsError(r.err) THEN r ELSE Ok(r.v, array_end)
               : r \in {Static_deserialize_elements(
                          A, t.elem, [value EXCEPT !.current_len_ = len], 1, len, input,
                          at + SizeofLength)} })

Static_deserialize_map(A, t, value, set, input, offset) ==
  LET map_end == calculate_map_end_offset(A, t, offset)
      at == offset + calculate_padding(A, SizeofLength, offset)
      len == U32(RdN(input, at, SizeofLength))
  IN  IF ~set THEN Ok([value EXCEPT !.current_len_ = 0], map_end)
      ELSE IF len > t.max_size
      THEN Fail(value, at + SizeofLength,
                Error_capacity_exceeded(0, "map capacity exceeded"))
      ELSE The({ IF IsError(r.err) THEN r ELSE Ok(r.v, map_end)
               : r \in {Static_deserialize_pairs(
                          A, t, [value EXCEPT !.current_len_ = len], 1, len, input,
                          at + SizeofLength)} })

Static_deserialize_value(A, t, value, set, input, offset) ==
  CASE t.kind = "string" -> Static_deserialize_string(A, t, value, set, input, offset)
    [] t.kind = "message" -> Static_deserialize_message(A, t, value, set, input, offset)
    [] t.kind = "array" -> Static_deserialize_array(A, t, value, set, input, offset)
    [] t.kind = "map" -> Static_deserialize_map(A, t, value, set, input, offset)
    [] t.kind = "scalar" -> Static_deserialize_scalar(A, t, value, set, input, offset)

Static_deserialize_field(A, t, field, input, offset) ==
  IF t.kind # "field" THEN Static_deserialize_value(A, t, field, TRUE, input, offset)
  ELSE The({ The({ [v |-> [value_ |-> r.v, set_ |-> set], offset |-> r.offset,
                     err |-> r.err]
                  : r \in {Static_deserialize_value(A, t.inner, field.value_, set, input,
                                                    offset + 1)} })
           : set \in {Rd(input, offset) # 0} })

\* fields i.. of message object m
Static_deserialize_fields(A, nm, m, i, input, offset) ==
  IF i > NumFields(nm) THEN Ok(m, offset)
  ELSE The({ IF IsError(r.err) THEN Fail([m EXCEPT ![i] = r.v], r.offset, r.err)
             ELSE Static_deserialize_fields(A, nm, [m EXCEPT ![i] = r.v], i + 1, input,
                                            r.offset)
           : r \in {Static_deserialize_field(A, Fields(nm)[i], m[i], input, offset)} })

\* elements i..len of array object a
Static_deserialize_elements(A, te, a, i, len, input, offset) ==
  IF i > len THEN Ok(a, offset)
  ELSE The({ IF IsError(r.err) THEN Fail([a EXCEPT !.items_[i] = r.v], r.offset, r.err)
             ELSE Static_deserialize_elements(A, te, [a EXCEPT !.items_[i] = r.v], i + 1,
                                              len, input, r.offset)
           : r \in {Static_deserialize_value(A, te, a.items_[i], TRUE, input, offset)} })

\* pairs i..len of map object m
Static_deserialize_pairs(A, t, m, i, len, input, offset) ==
  IF i > len THEN Ok(m, offset)
  ELSE The({
    IF IsError(k.err) THEN Fail([m EXCEPT !.items_[i].first = k.v], k.offset, k.err)
    ELSE The({
      IF IsError(w.err)
      THEN Fail([m EXCEPT !.items_[i] = [first |-> k.v, second |-> w.v]], w.offset, w.err)
      ELSE Static_deserialize_pairs(A, t,
             [m EXCEPT !.items_[i] = [first |-> k.v, second |-> w.v]],
             i + 1, len, input, w.offset)
      : w \in {Static_deserialize_value(A, t.value, m.items_[i].second, TRUE, input,
                                        k.offset)} })
    : k \in {Static_deserialize_value(A, t.key, m.items_[i].first, TRUE, input, offset)} })

\* StaticLayout<A>::Deserialize(input, msg)
Static_Deserialize(A, nm, input, msg) ==
  IF RdN(input, PayloadStartOffset(A), SizeofMessageId) # LE32(message_id(nm))
  THEN Fail(msg, PayloadStartOffset(A), Error_invalid_message_id)
  ELSE Static_deserialize_fields(A, nm, msg, 1, input,
                                 PayloadStartOffset(A) + SizeofMessageId)

(***************************************************************************)
(* Varint (crunch_varint.hpp).  A uint64_t is a sequence of 64 bits, least *)
(* significant first.                                                      *)
(***************************************************************************)
Varint_max_size == 10

max_varint_size(value_bits) == (value_bits + 6) \div 7

Bit(bits, i) == IF i <= 64 THEN bits[i] ELSE 0

\* static_cast<uint64_t>(bit_cast<make_unsigned_t<T>>(value)): zero extension
U64OfBytes(bs) ==
  [i \in 1..64 |-> IF i <= 8 * Len(bs)
                   THEN (bs[((i - 1) \div 8) + 1] \div (2 ^ ((i - 1) % 8))) % 2
                   ELSE 0] \o <<>>

\* a size, count or tag below 2^31 as a uint64_t
U64OfInt(n) ==
  [i \in 1..64 |-> IF i <= 31 THEN (n \div (2 ^ (i - 1))) % 2 ELSE 0] \o <<>>

\* value & 0x7F
Low7(bits) ==
  Bit(bits, 1) + 2 * Bit(bits, 2) + 4 * Bit(bits, 3) + 8 * Bit(bits, 4)
    + 16 * Bit(bits, 5) + 32 * Bit(bits, 6) + 64 * Bit(bits, 7)

\* value >= 0x80
AtLeast128(bits) == \E i \in 8..64 : bits[i] = 1

\* value >> 7
Shr7(bits) == SubSeq(bits, 8, 64) \o <<0, 0, 0, 0, 0, 0, 0>>

\* Varint::encode: the bytes stored at offset, offset + 1, ...
RECURSIVE Varint_encode(_)
Varint_encode(value) ==
  IF AtLeast128(value) THEN <<Low7(value) + 128>> \o Varint_encode(Shr7(value))
  ELSE <<Low7(value)>>

\* Varint::size of a value below 2^31
RECURSIVE Varint_size_loop(_, _)
Varint_size_loop(value, bytes) ==
  IF value > 0 THEN Varint_size_loop(value \div 128, bytes + 1) ELSE bytes

Varint_size(value) == IF value = 0 THEN 1 ELSE Varint_size_loop(value, 0)

nullopt == [ok |-> FALSE, value |-> U64OfInt(0), bytes_read |-> 0]

\* value | (uint64_t(byte & 0x7F) << shift): bits shifted past bit 63 are lost
OrShifted(value, byte, shift) ==
  [i \in 1..64 |-> IF i - 1 >= shift /\ i - 1 < shift + 7 /\ value[i] = 0
                   THEN (byte \div (2 ^ (i - 1 - shift))) % 2
                   ELSE value[i]] \o <<>>

\* Varint::decode(input, offset); input is the span, Len(input) its size()
RECURSIVE Varint_decode_loop(_, _, _, _, _)
Varint_decode_loop(input, offset, bytes_read, shift, value) ==
  IF ~(offset + bytes_read < Len(input)) THEN nullopt
  ELSE IF shift >= 64 THEN nullopt
  ELSE LET byte == input[offset + bytes_read + 1]
           v == OrShifted(value, byte, shift)
       IN  IF byte < 128 THEN [ok |-> TRUE, value |-> v, bytes_read |-> bytes_read + 1]
           ELSE Varint_decode_loop(input, offset, bytes_read + 1, shift + 7, v)

Varint_decode(input, offset) == Varint_decode_loop(input, offset, 0, 0, U64OfInt(0))

\* static_cast<make_unsigned_t<T>>(v) as the w bytes of the object
BytesOfU64(value, w) ==
  [j \in 1..w |->
     LET b(k) == value[8 * (j - 1) + k]
     IN  b(1) + 2 * b(2) + 4 * b(3) + 8 * b(4) + 16 * b(5) + 32 * b(6) + 64 * b(7)
           + 128 * b(8)] \o <<>>

Huge == 2 ^ 24

\* a uint64_t as a number; every value of 2^24 or more is reported as Huge
SizeOfU64(value) ==
  IF \E i \in 25..64 : value[i] = 1 THEN Huge
  ELSE LET p[i \in 0..24] == IF i = 0 THEN 0 ELSE p[i - 1] + value[i] * (2 ^ (i - 1))
       IN  p[24]

\* offset + len computed in 64 bits wraps around (offset < 2^24)
AddWraps(offset, value) ==
  /\ \A i \in 25..64 : value[i] = 1
  /\ LET p[i \in 0..24] == IF i = 0 THEN 0 ELSE p[i - 1] + value[i] * (2 ^ (i - 1))
     IN  p[24] + offset >= Huge

\* offset + len > input.size(), len being the decoded 64-bit value
LenExceeds(offset, value, size) ==
  IF SizeOfU64(value) < Huge THEN offset + SizeOfU64(value) > size
  ELSE ~AddWraps(offset, value)

(***************************************************************************)
(* TLV layout (crunch_tlv_layout.hpp)                                      *)
(***************************************************************************)
WireTypeBits == 3

WireType_Varint == 0

WireType_LengthDelimited == 1

SizeofFieldId == 4

MaxTagBits == SizeofFieldId * 8 + WireTypeBits

RECURSIVE calculate_max_message_size(_)
RECURSIVE calculate_max_value_size(_)
RECURSIVE sum_fields_impl(_, _)

calculate_max_array_field_size(te, max_elements) ==
  max_varint_size(MaxTagBits) + Varint_max_size + Varint_max_size
    + (max_elements * calculate_max_value_size(te))

\* a bound that counts the tag of a scalar field and leaves out its value
calculate_max_scalar_field_size_TagOnly(t) == max_varint_size(MaxTagBits)

calculate_max_scalar_field_size(t) == max_varint_size(MaxTagBits) + Varint_max_size

calculate_max_string_field_size(t) ==
  max_varint_size(MaxTagBits) + Varint_max_size + t.max_size

calculate_max_nested_message_field_size(t) ==
  max_varint_size(MaxTagBits) + Varint_max_size + calculate_max_message_size(t.name)

calculate_max_map_field_size(tk, tv, max_elements) ==
  max_varint_size(MaxTagBits) + Varint_max_size + Varint_max_size
    + max_elements * (calculate_max_value_size(tk) + calculate_max_value_size(tv))

calculate_max_value_size(t) ==
  CASE t.kind = "scalar" -> Varint_max_size
    [] t.kind = "string" -> Varint_max_size + t.max_size
    [] t.kind = "message" -> Varint_max_size + calculate_max_message_size(t.name)
    [] t.kind = "array" -> calculate_max_array_field_size(t.elem, t.max_size)
    [] t.kind = "map" -> calculate_max_map_field_size(t.key, t.value, t.max_size)

calculate_max_field_size_type(t) ==
  CASE t.kind = "array" -> calculate_max_array_field_size(t.elem, t.max_size)
    [] t.kind = "map" -> calculate_max_map_field_size(t.key, t.value, t.max_size)
    [] t.kind = "field" /\ t.inner.kind = "scalar" -> calculate_max_scalar_field_size(t.inner)
    [] t.kind = "field" /\ t.inner.kind = "string" -> calculate_max_string_field_size(t.inner)
    [] t.kind = "field" /\ t.inner.kind = "message" ->
         calculate_max_nested_message_field_size(t.inner)

sum_fields_impl(nm, i) ==
  IF i > NumFields(nm) THEN 0
  ELSE calculate_max_field_size_type(Fields(nm)[i]) + sum_fields_impl(nm, i + 1)

calculate_max_message_size(nm) == sum_fields_impl(nm, 1)

\* TlvLayout::Size<Message>()
Tlv_Size(nm) == StandardHeaderSize + SizeofLength + calculate_max_message_size(nm)

\* The effect of a serialize_* function called at some offset: `bytes` are
\* the bytes left at offset, offset + 1, ... up to the offset it returns;
\* `trail` is what it leaves behind past that offset (the remains of content
\* written after a reserved length prefix and then moved down), with -1 for
\* a byte it did not store to.
Untouched == 0 - 1

Plain(bs) == [bytes |-> bs, trail |-> <<>>]

TrailAt(w, p) == IF p >= 1 /\ p <= Len(w.trail) THEN w.trail[p] ELSE Untouched

\* a, then b at the offset a returned
Then(a, b) ==
  [bytes |-> a.bytes \o b.bytes,
   trail |-> [p \in 1..Max2(Len(a.trail) - Len(b.bytes), Len(b.trail)) |->
                IF TrailAt(b, p) # Untouched THEN TrailAt(b, p)
                ELSE TrailAt(a, p + Len(b.bytes))] \o <<>>]

\* one past the last position stored to, relative to the starting offset
HighWater(w) ==
  LET written == {p \in 1..Len(w.trail) : w.trail[p] # Untouched}
  IN  Len(w.bytes) + (IF written = {} THEN 0
                      ELSE CHOOSE p \in written : \A q \in written : q <= p)

\* write_tag
write_tag(id, wt) == Plain(Varint_encode(U64OfInt((id * (2 ^ WireTypeBits)) + wt)))

\* serialize_scalar_value
serialize_scalar_value(v) == Plain(Varint_encode(U64OfBytes(v)))

\* serialize_string_value
serialize_string_value(v) ==
  Plain(Varint_encode(U64OfInt(v.current_len_)) \o String_get(v))

\* content written Varint::max_size bytes after len_offset, followed by
\* fixup_length_prefix; the result is relative to len_offset
fixup_length_prefix(c) ==
  LET content_size == Len(c.bytes)
      k == Varint_size(content_size)
      \* the memory from len_offset on before the fix-up
      old == [p \in 1..(Varint_max_size + content_size + Len(c.trail)) |->
                IF p <= Varint_max_size THEN Untouched
                ELSE IF p <= Varint_max_size + content_size
                THEN c.bytes[p - Varint_max_size]
                ELSE c.trail[p - Varint_max_size - content_size]]
  IN  IF k < Varint_max_size
      THEN [bytes |-> Varint_encode(U64OfInt(content_size)) \o c.bytes,
            trail |-> SubSeq(old, k + content_size + 1, Len(old))]
      ELSE [bytes |-> Varint_encode(U64OfInt(content_size)) \o c.bytes,
            trail |-> c.trail]

RECURSIVE serialize_value_without_tag(_, _)
RECURSIVE serialize_fields_helper(_, _, _)
RECURSIVE serialize_array_items(_, _, _)
RECURSIVE serialize_map_items(_, _, _)

\* serialize_nested_message
serialize_nested_message(t, v) == fixup_length_prefix(serialize_fields_helper(t.name, v, 1))

\* serialize_array_content: the element count, then the elements
serialize_array_content(t, a) ==
  Then(Plain(Varint_encode(U64OfInt(a.current_len_))), serialize_array_items(t, a, 1))

serialize_array_items(t, a, i) ==
  IF i > a.current_len_ THEN Plain(<<>>)
  ELSE Then(serialize_value_without_tag(t.elem, a.items_[i]),
            serialize_array_items(t, a, i + 1))

serialize_array_value(t, a) == fixup_length_prefix(serialize_array_content(t, a))

serialize_array_field(t, a) ==
  Then(write_tag(t.id, WireType_LengthDelimited), serialize_array_value(t, a))

\* serialize_map_content: the entry count, then key and value of each entry
serialize_map_content(t, m) ==
  Then(Plain(Varint_encode(U64OfInt(m.current_len_))), serialize_map_items(t, m, 1))

serialize_map_items(t, m, i) ==
  IF i > m.current_len_ THEN Plain(<<>>)
  ELSE Then(Then(serialize_value_without_tag(t.key, m.items_[i].first),
                 serialize_value_without_tag(t.value, m.items_[i].second)),
            serialize_map_items(t, m, i + 1))

serialize_map_value(t, m) == fixup_length_prefix(serialize_map_content(t, m))

serialize_map_field(t, m) ==
  Then(write_tag(t.id, WireType_LengthDelimited), serialize_map_value(t, m))

serialize_value_without_tag(t, v) ==
  CASE t.kind = "scalar" -> serialize_scalar_value(v)
    [] t.kind = "string" -> serialize_string_value(v)
    [] t.kind = "message" -> serialize_nested_message(t, v)
    [] t.kind = "array" -> serialize_array_value(t, v)
    [] t.kind = "map" -> serialize_map_value(t, v)

\* TlvLayout::serialize_field: an unset field and an empty array or map
\* store nothing
Tlv_serialize_field(t, f) ==
  CASE t.kind = "array" ->
         IF f.current_len_ = 0 THEN Plain(<<>>) ELSE serialize_array_field(t, f)
    [] t.kind = "map" ->
         IF f.current_len_ = 0 THEN Plain(<<>>) ELSE serialize_map_field(t, f)
    [] t.kind = "field" ->
         IF ~f.set_ THEN Plain(<<>>)
         ELSE IF t.inner.kind = "scalar"
         THEN Then(write_tag(t.id, WireType_Varint), serialize_scalar_value(f.value_))
         ELSE IF t.inner.kind = "string"
         THEN Then(write_tag(t.id, WireType_LengthDelimited),
                   serialize_string_value(f.value_))
         ELSE Then(write_tag(t.id, WireType_LengthDelimited),
                   serialize_nested_message(t.inner, f.value_))

\* fields i.. of message object m
serialize_fields_helper(nm, m, i) ==
  IF i > NumFields(nm) THEN Plain(<<>>)
  ELSE Then(Tlv_serialize_field(Fields(nm)[i], m[i]), serialize_fields_helper(nm, m, i + 1))

\* TlvLayout::Serialize: what is stored from offset StandardHeaderSize on:
\* the 4-byte payload length (stored last), then the fields
Tlv_Serialize(nm, msg) ==
  LET payload == serialize_fields_helper(nm, msg, 1)
  IN  [bytes |-> LE32(Len(payload.bytes)) \o payload.bytes, trail |-> payload.trail]

\* Serdes::Size<Message>()
Serdes_Size(S, nm) == IF S = "TLV" THEN Tlv_Size(nm) ELSE Static_Size(Alignment(S), nm)

\* Serdes::Serialize(msg, output), as stored from offset StandardHeaderSize
Serdes_Serialize(S, nm, msg) ==
  IF S = "TLV" THEN Tlv_Serialize(nm, msg)
  ELSE Plain(Static_Serialize(Alignment(S), nm, msg))

(***************************************************************************)
(* Mutators used while decoding (crunch_string.hpp, crunch_field.hpp)      *)
(***************************************************************************)
Done(v) == [v |-> v, err |-> NoError]

Refused(v, e) == [v |-> v, err |-> e]

\* String::set(sv); len is sv.size() (Huge for a size the model cannot hold),
\* sv the characters
String_set(t, s, sv, len) ==
  IF len > t.max_size THEN Refused(s, Error_capacity_exceeded(0, "string exceeds capacity"))
  ELSE IF IsError(String_Validate(t, sv, 0)) THEN Refused(s, String_Validate(t, sv, 0))
  ELSE Done([buffer_ |-> sv \o Zeros(t.max_size - Len(sv)), current_len_ |-> Len(sv)])

\* an add that refuses only when the size is above the capacity
ArrayField_add_OffByOne(t, a, val) ==
  IF a.current_len_ > t.max_size
  THEN Refused(a, Error_capacity_exceeded(t.id, "array capacity exceeded"))
  ELSE Done([items_ |-> [a.items_ EXCEPT ![a.current_len_ + 1] = val],
             current_len_ |-> a.current_len_ + 1])

\* ArrayField::add
ArrayField_add(t, a, val) ==
  IF a.current_len_ >= t.max_size
  THEN Refused(a, Error_capacity_exceeded(t.id, "array capacity exceeded"))
  ELSE Done([items_ |-> [a.items_ EXCEPT ![a.current_len_ + 1] = val],
             current_len_ |-> a.current_len_ + 1])

\* MapField::key_equals
key_equals(t, stored, key) == Value_eq(t.key, stored, key)

\* MapField::at(key).has_value()
MapField_has_key(t, m, key) ==
  \E i \in 1..m.current_len_ : key_equals(t, m.items_[i].first, key)

\* Key/ValueField::Validate(x, 0) for scalars and strings, x.Validate() else
Map_ItemValidate(tt, x) ==
  CASE tt.kind = "scalar" -> Scalar_Validate(tt, x, 0)
    [] tt.kind = "string" -> String_Validate(tt, String_get(x), 0)
    [] tt.kind = "message" -> MessageHook(tt.name, x)
    [] tt.kind = "array" -> ArrayField_Validate(tt, x)
    [] tt.kind = "map" -> MapField_Validate(tt, x)

\* MapField::insert
MapField_insert(t, m, key, value) ==
  IF IsError(Map_ItemValidate(t.key, key)) THEN Refused(m, Map_ItemValidate(t.key, key))
  ELSE IF IsError(Map_ItemValidate(t.value, value))
  THEN Refused(m, Map_ItemValidate(t.value, value))
  ELSE IF m.current_len_ >= t.max_size
  THEN Refused(m, Error_capacity_exceeded(t.id, "map capacity exceeded"))
  ELSE IF MapField_has_key(t, m, key)
  THEN Refused(m, Error_validation(t.id, "Duplicate key in map"))
  ELSE Done([items_ |-> [m.items_ EXCEPT ![m.current_len_ + 1] =
                           [first |-> key, second |-> value]],
             current_len_ |-> m.current_len_ + 1])

\* Scalar::set(v): Validate(v), then value_ = v
Scalar_set(t, value, v) ==
  IF IsError(Scalar_Validate(t, v, 0)) THEN Refused(value, Scalar_Validate(t, v, 0))
  ELSE Done(v)

\* a set that marks the field as set whatever value_.set returned
Field_set_MarksSet(t, f, val) ==
  CASE t.inner.kind = "message" -> Done([value_ |-> val, set_ |-> TRUE])
    [] OTHER ->
         The({ [v |-> [value_ |-> r.v, set_ |-> TRUE], err |-> r.err]
             : r \in {IF t.inner.kind = "scalar" THEN Scalar_set(t.inner, f.value_, val)
                      ELSE String_set(t.inner, f.value_, val, Len(val))} })

\* Field::set(val): value_.set(val) for a Scalar or a String, set_ = true
\* unless it failed; a submessage is assigned
Field_set(t, f, val) ==
  CASE t.inner.kind = "message" -> Done([value_ |-> val, set_ |-> TRUE])
    [] OTHER ->
         The({ IF IsError(r.err) THEN Refused([f EXCEPT !.value_ = r.v], r.err)
               ELSE Done([value_ |-> r.v, set_ |-> TRUE])
             : r \in {IF t.inner.kind = "scalar" THEN Scalar_set(t.inner, f.value_, val)
                      ELSE String_set(t.inner, f.value_, val, Len(val))} })

\* Field::set_without_validation(val)
Field_set_without_validation(t, f, val) == [value_ |-> val, set_ |-> TRUE]

\* Field::clear(): set_ = false; value_ = {}
Field_clear(t, f) == [value_ |-> DefaultValue(t.inner), set_ |-> FALSE]

\* ArrayField::clear() and MapField::clear(): current_len_ = 0
Container_clear(c) == [c EXCEPT !.current_len_ = 0]

\* a remove that drops the last live pair instead of the one found
MapField_remove_PopBack(t, m, key) ==
  LET hits == {i \in 1..m.current_len_ : key_equals(t, m.items_[i].first, key)}
      cleared == [first |-> DefaultValue(t.key), second |-> DefaultValue(t.value)]
  IN  IF hits = {} THEN [v |-> m, ret |-> FALSE]
      ELSE [v |-> [items_ |-> [m.items_ EXCEPT ![m.current_len_] = cleared],
                   current_len_ |-> m.current_len_ - 1],
            ret |-> TRUE]

\* MapField::remove(key): the first pair whose key equals key is cleared, the
\* pairs behind it move down by one, the last live slot is cleared
MapField_remove(t, m, key) ==
  LET hits == {i \in 1..m.current_len_ : key_equals(t, m.items_[i].first, key)}
      cleared == [first |-> DefaultValue(t.key), second |-> DefaultValue(t.value)]
  IN  IF hits = {} THEN [v |-> m, ret |-> FALSE]
      ELSE LET i == CHOOSE h \in hits : \A j \in hits : h <= j
           IN  [v |-> [items_ |-> [j \in 1..t.max_size |->
                                    IF j < i \/ j > m.current_len_ THEN m.items_[j]
                                    ELSE IF j < m.current_len_ THEN m.items_[j + 1]
                                    ELSE cleared] \o <<>>,
                       current_len_ |-> m.current_len_ - 1],
                ret |-> TRUE]

(***************************************************************************)
(* TLV decoding.  `input` is the span handed to the function (Len(input)   *)
(* is input.size()); results are as for the static layout.                 *)
(***************************************************************************)
\* input.subspan(offset, len) with offset + len past the end of the span
\* (reached when offset + len wrapped around): undefined behaviour
UndefinedBehaviour ==
  [code |-> "UndefinedBehaviour", field_id |-> 0, message |-> "subspan out of range"]

\* Varint::decode of a length followed by the test offset + len > input.size():
\* err, the length (len), and the offset of the content (offset)
ReadLength(input, offset, invalid_msg, underflow_msg) ==
  The({ IF ~res.ok
        THEN [err |-> Error_deserialization(invalid_msg), len |-> 0, offset |-> offset]
        ELSE IF LenExceeds(offset + res.bytes_read, res.value, Len(input))
        THEN [err |-> Error_deserialization(underflow_msg), len |-> 0,
              offset |-> offset + res.bytes_read]
        ELSE [err |-> NoError, len |-> SizeOfU64(res.value),
              offset |-> offset + res.bytes_read]
      : res \in {Varint_decode(input, offset)} })

\* read_length_prefix
read_length_prefix(input, offset, error_msg) ==
  ReadLength(input, offset, error_msg, "buffer underflow")

\* input.subspan(offset, len)
subspan(input, offset, len) == SubSeq(input, offset + 1, offset + len)

RECURSIVE deserialize_message_payload(_, _, _, _)
RECURSIVE deserialize_value_without_tag(_, _, _, _)
RECURSIVE deserialize_array_elements_loop(_, _, _, _, _)
RECURSIVE deserialize_map_elements_loop(_, _, _, _, _)

\* deserialize_scalar_array / deserialize_scalar_value
deserialize_scalar_value(t, val, input, offset) ==
  The({ IF ~res.ok THEN Fail(val, offset, Error_deserialization("invalid varint in packed"))
        ELSE Ok(BytesOfU64(res.value, t.width), offset + res.bytes_read)
      : res \in {Varint_decode(input, offset)} })

deserialize_string_value(t, val, input, offset) ==
  The({ IF IsError(l.err) THEN Fail(val, l.offset, l.err)
        ELSE The({ [v |-> r.v, offset |-> l.offset + l.len, err |-> r.err]
                 : r \in {String_set(t, val, subspan(input, l.offset,
                                                     Min2(l.len, Len(input))), l.len)} })
      : l \in {read_length_prefix(input, offset, "invalid string length")} })

\* the outcome of decoding the `len` bytes at `offset` as r, for the caller
\* holding val
Contained(val, offset, len, r) ==
  IF IsError(r.err) THEN Fail(r.v, offset, r.err) ELSE Ok(r.v, offset + len)

deserialize_message_value(t, val, input, offset) ==
  The({ IF IsError(l.err) THEN Fail(val, l.offset, l.err)
        ELSE IF l.len = Huge THEN Fail(val, l.offset, UndefinedBehaviour)
        ELSE Contained(val, l.offset, l.len,
                       deserialize_message_payload(t.name, subspan(input, l.offset, l.len),
                                                   val, 0))
      : l \in {read_length_prefix(input, offset, "invalid message length")} })

\* deserialize_array_elements: the count, then `count` elements appended
\* with ArrayField::add
deserialize_array_elements(t, field, input, offset) ==
  The({ IF ~count_res.ok
        THEN Fail(field, offset, Error_deserialization("invalid array count"))
        ELSE deserialize_array_elements_loop(t, field, input, offset + count_res.bytes_read,
                                             SizeOfU64(count_res.value))
      : count_res \in {Varint_decode(input, offset)} })

deserialize_array_elements_loop(t, field, input, offset, remaining) ==
  IF remaining = 0 THEN Ok(field, offset)
  ELSE The({ IF IsError(e.err) THEN Fail(field, e.offset, e.err)
             ELSE The({ IF IsError(a.err) THEN Fail(field, e.offset, a.err)
                        ELSE deserialize_array_elements_loop(t, a.v, input, e.offset,
                                                             remaining - 1)
                      : a \in {ArrayField_add(t, field, e.v)} })
           : e \in {deserialize_value_without_tag(t.elem, DefaultValue(t.elem), input,
                                                  offset)} })

\* deserialize_map_elements: the count, then `count` entries added with
\* MapField::insert
deserialize_map_elements(t, field, input, offset) ==
  The({ IF ~count_res.ok
        THEN Fail(field, offset, Error_deserialization("invalid map count"))
        ELSE deserialize_map_elements_loop(t, field, input, offset + count_res.bytes_read,
                                           SizeOfU64(count_res.value))
      : count_res \in {Varint_decode(input, offset)} })

deserialize_map_elements_loop(t, field, input, offset, remaining) ==
  IF remaining = 0 THEN Ok(field, offset)
  ELSE The({ IF IsError(k.err) THEN Fail(field, k.offset, k.err)
             ELSE The({ IF IsError(w.err) THEN Fail(field, w.offset, w.err)
                        ELSE The({ IF IsError(ins.err) THEN Fail(field, w.offset, ins.err)
                                   ELSE deserialize_map_elements_loop(
                                          t, ins.v, input, w.offset, remaining - 1)
                                 : ins \in {MapField_insert(t, field, k.v, w.v)} })
                      : w \in {deserialize_value_without_tag(
                                 t.value, DefaultValue(t.value), input, k.offset)} })
           : k \in {deserialize_value_without_tag(t.key, DefaultValue(t.key), input,
                                                  offset)} })

\* deserialize_array_value / deserialize_map_value, and the bodies of
\* deserialize_array_field / deserialize_map_field after the wire type test
deserialize_container(t, val, input, offset, invalid_msg, underflow_msg) ==
  The({ IF IsError(l.err) THEN Fail(val, l.offset, l.err)
        ELSE IF l.len = Huge THEN Fail(val, l.offset, UndefinedBehaviour)
        ELSE Contained(val, l.offset, l.len,
                       IF t.kind = "array"
                       THEN deserialize_array_elements(t, val, subspan(input, l.offset, l.len), 0)
                       ELSE deserialize_map_elements(t, val, subspan(input, l.offset, l.len), 0))
      : l \in {ReadLength(input, offset, invalid_msg, underflow_msg)} })

deserialize_array_value(t, val, input, offset) ==
  deserialize_container(t, val, input, offset, "invalid array length", "buffer underflow")

deserialize_map_value(t, val, input, offset) ==
  deserialize_container(t, val, input, offset, "invalid map length", "buffer underflow")

deserialize_value_without_tag(t, val, input, offset) ==
  CASE t.kind = "scalar" -> deserialize_scalar_value(t, val, input, offset)
    [] t.kind = "string" -> deserialize_string_value(t, val, input, offset)
    [] t.kind = "message" -> deserialize_message_value(t, val, input, offset)
    [] t.kind = "array" -> deserialize_array_value(t, val, input, offset)
    [] t.kind = "map" -> deserialize_map_value(t, val, input, offset)

deserialize_array_field(t, field, wire_type, input, offset) ==
  IF wire_type # WireType_LengthDelimited
  THEN Fail(field, offset, Error_deserialization("array must be length delimited"))
  ELSE deserialize_container(t, field, input, offset, "invalid array length",
                             "array underflow")

deserialize_map_field(t, field, wire_type, input, offset) ==
  IF wire_type # WireType_LengthDelimited
  THEN Fail(field, offset, Error_deserialization("map must be length delimited"))
  ELSE deserialize_container(t, field, input, offset, "could not decode map length",
                             "map underflow")

\* the value is stored with set_without_validation
deserialize_scalar_field(t, field, wire_type, input, offset) ==
  IF wire_type # WireType_Varint
  THEN Fail(field, offset, Error_deserialization("scalar must be varint"))
  ELSE The({ IF ~res.ok THEN Fail(field, offset, Error_deserialization("invalid varint"))
             ELSE Ok([value_ |-> BytesOfU64(res.value, t.inner.width), set_ |-> TRUE],
                     offset + res.bytes_read)
           : res \in {Varint_decode(input, offset)} })

\* the value is stored with Field::set, which runs String::set
deserialize_string_field(t, field, wire_type, input, offset) ==
  IF wire_type # WireType_LengthDelimited
  THEN Fail(field, offset, Error_deserialization("string requires length delimited"))
  ELSE The({ IF IsError(l.err) THEN Fail(field, l.offset, l.err)
             ELSE The({ IF IsError(r.err) THEN Fail(field, l.offset + l.len, r.err)
                        ELSE Ok([value_ |-> r.v, set_ |-> TRUE], l.offset + l.len)
                      : r \in {String_set(t.inner, field.value_,
                                          subspan(input, l.offset, Min2(l.len, Len(input))),
                                          l.len)} })
           : l \in {ReadLength(input, offset, "invalid length", "underflow")} })

\* a decoding of the submessage into the field's present value
deserialize_nested_message_field_Merging(t, field, wire_type, input, offset) ==
  IF wire_type # WireType_LengthDelimited
  THEN Fail(field, offset, Error_deserialization("nested msg requires length delimited"))
  ELSE The({ IF IsError(l.err) THEN Fail(field, l.offset, l.err)
             ELSE IF l.len = Huge THEN Fail(field, l.offset, UndefinedBehaviour)
             ELSE The({ IF IsError(r.err) THEN Fail(field, l.offset, r.err)
                        ELSE Ok([value_ |-> r.v, set_ |-> TRUE], l.offset + l.len)
                      : r \in {deserialize_message_payload(
                                 t.inner.name, subspan(input, l.offset, l.len),
                                 field.value_, 0)} })
           : l \in {ReadLength(input, offset, "invalid length", "underflow")} })

\* the submessage is decoded into a temporary and stored with Field::set
deserialize_nested_message_field(t, field, wire_type, input, offset) ==
  IF wire_type # WireType_LengthDelimited
  THEN Fail(field, offset, Error_deserialization("nested msg requires length delimited"))
  ELSE The({ IF IsError(l.err) THEN Fail(field, l.offset, l.err)
             ELSE IF l.len = Huge THEN Fail(field, l.offset, UndefinedBehaviour)
             ELSE The({ IF IsError(r.err) THEN Fail(field, l.offset, r.err)
                        ELSE Ok([value_ |-> r.v, set_ |-> TRUE], l.offset + l.len)
                      : r \in {deserialize_message_payload(
                                 t.inner.name, subspan(input, l.offset, l.len),
                                 DefaultValue(t.inner), 0)} })
           : l \in {ReadLength(input, offset, "invalid length", "underflow")} })

deserialize_field_value(t, field, wire_type, input, offset) ==
  CASE t.kind = "array" -> deserialize_array_field(t, field, wire_type, input, offset)
    [] t.kind = "map" -> deserialize_map_field(t, field, wire_type, input, offset)
    [] t.kind = "field" /\ t.inner.kind = "scalar" ->
         deserialize_scalar_field(t, field, wire_type, input, offset)
    [] t.kind = "field" /\ t.inner.kind = "string" ->
         deserialize_string_field(t, field, wire_type, input, offset)
    [] t.kind = "field" /\ t.inner.kind = "message" ->
         deserialize_nested_message_field(t, field, wire_type, input, offset)

\* static_cast<FieldId>(static_cast<uint32_t>(tag >> WireTypeBits)); an id of
\* 2^24 or more (no modelled field has one) is reported as Huge
FieldIdOfTag(tag) ==
  IF \E i \in 28..35 : tag[i] = 1 THEN Huge
  ELSE LET p[i \in 3..27] == IF i = 3 THEN 0 ELSE p[i - 1] + tag[i] * (2 ^ (i - 4))
       IN  p[27]

\* tag & 0x07
WireTypeOfTag(tag) == tag[1] + 2 * tag[2] + 4 * tag[3]

\* visit_fields_tlv: the index of the first field whose id is target_id, or 0
visit_fields_tlv(nm, target_id) ==
  LET hits == {i \in 1..NumFields(nm) : Fields(nm)[i].id = target_id}
  IN  IF hits = {} THEN 0 ELSE CHOOSE i \in hits : \A j \in hits : i <= j

deserialize_message_payload(nm, input, msg, offset) ==
  IF ~(offset < Len(input)) THEN Ok(msg, offset)
  ELSE The({
    IF ~tag_res.ok THEN Fail(msg, offset, Error_deserialization("invalid tag varint"))
    ELSE The({
      IF i = 0
      THEN Fail(msg, offset + tag_res.bytes_read,
                Error_deserialization("unknown fields present"))
      ELSE The({
        IF IsError(r.err) THEN Fail([msg EXCEPT ![i] = r.v], r.offset, r.err)
        ELSE deserialize_message_payload(nm, input, [msg EXCEPT ![i] = r.v], r.offset)
        : r \in {deserialize_field_value(Fields(nm)[i], msg[i],
                                         WireTypeOfTag(tag_res.value), input,
                                         offset + tag_res.bytes_read)} })
      : i \in {visit_fields_tlv(nm, FieldIdOfTag(tag_res.value))} })
    : tag_res \in {Varint_decode(input, offset)} })

\* TlvLayout::Deserialize(input, msg)
Tlv_Deserialize(nm, input, msg) ==
  IF StandardHeaderSize + SizeofLength > Len(input)
  THEN Fail(msg, StandardHeaderSize,
            Error_deserialization("buffer too small for tlv length"))
  ELSE The({
    IF offset + payload_len > Len(input)
    THEN Fail(msg, offset, Error_deserialization("tlv length exceeds buffer"))
    ELSE deserialize_message_payload(nm, SubSeq(input, 1, offset + payload_len), msg, offset)
    : offset \in {StandardHeaderSize + SizeofLength},
      payload_len \in {U32(RdN(input, StandardHeaderSize, SizeofLength))} })

(***************************************************************************)
(* Buffer / Serialize / Deserialize (crunch.hpp, crunch_detail.hpp)        *)
(*                                                                         *)
(* The memory a call works on is the buffer's data array followed by       *)
(* `spill`, the bytes that lie behind the array.  A store to an index of   *)
(* N or more is out of bounds; the build may let it land in the memory     *)
(* behind the array or lose it, so every such call has both outcomes.      *)
(***************************************************************************)
\* Serdes::Deserialize(input, message).  The static layout reads through
\* input.data() and never looks at input.size(); the TLV layout stays inside
\* the span.
Serdes_Deserialize(S, nm, mem, size, message) ==
  IF S = "TLV" THEN Tlv_Deserialize(nm, SubSeq(mem, 1, size), message)
  ELSE Static_Deserialize(Alignment(S), nm, mem, message)

\* detail::GetBufferSize
GetBufferSize(nm, I, S) == Serdes_Size(S, nm) + Integrity_size(I)

\* GetBuffer: Buffer<Message, Integrity, Serdes, N>{}
GetBuffer(nm, I, S) == [data |-> Zeros(GetBufferSize(nm, I, S)), used_bytes |-> 0]

\* the stores of `image` (bytes for offsets at, at + 1, ...; Untouched leaves
\* a byte alone) into memory whose first N bytes are the array; kept tells
\* whether out-of-bounds stores land
Store(mem, N, at, image, kept) ==
  [i \in 1..Len(mem) |->
     IF i > at /\ i <= at + Len(image) /\ image[i - at] # Untouched /\ (i <= N \/ kept)
     THEN image[i - at] ELSE mem[i]] \o <<>>

\* detail::SerializeWithoutValidation on memory mem (array of N bytes plus
\* what follows): the memory afterwards, the value returned, and one past
\* the highest index stored to
detail_SerializeWithoutValidation(I, S, nm, mem, N, message, kept) ==
  The({ The({ [mem |-> Store(mem1, N, bytes_written,
                             Integrity_calculate(I, SubSeq(mem1, 1, Min2(bytes_written,
                                                                         Len(mem1)))),
                             kept),
               result |-> bytes_written + Integrity_size(I),
               bytes_written |-> bytes_written,
               high_water |-> Max2(StandardHeaderSize + HighWater(w),
                                   bytes_written + Integrity_size(I))]
            : bytes_written \in {StandardHeaderSize + Len(w.bytes)},
              mem1 \in {Store(mem, N, 0, WriteHeader(nm, S) \o w.bytes \o w.trail, kept)} })
      : w \in {Serdes_Serialize(S, nm, message)} })

\* decoding that accepts whatever the serdes decoded
DecodeAndValidate_NoValidate(nm, decoded) ==
  IF IsError(decoded.err) THEN Refused(decoded.v, decoded.err) ELSE Done(decoded.v)

\* the stages of detail::Deserialize after the header check: the serdes
\* decoding, then Validate on the decoded message
DecodeAndValidate(nm, decoded) ==
  IF IsError(decoded.err) THEN Refused(decoded.v, decoded.err)
  ELSE The({ IF IsError(e) THEN Refused(decoded.v, e) ELSE Done(decoded.v)
           : e \in {Validate(nm, decoded.v)} })

\* detail::Deserialize(buffer, message): buffer is the span of `size` bytes
\* at the start of mem
detail_Deserialize(I, S, nm, mem, size, message) ==
  IF size < Integrity_size(I)
  THEN Refused(message, Error_deserialization("buffer too small for checksum"))
  ELSE The({
    IF Integrity_calculate(I, payload_span) # RdN(mem, PayloadSize, Integrity_size(I))
    THEN Refused(message, Error_integrity)
    ELSE The({
      IF IsError(header_result) THEN Refused(message, header_result)
      ELSE DecodeAndValidate(nm, Serdes_Deserialize(S, nm, mem, PayloadSize, message))
      : header_result \in {ValidateHeader(nm, S, payload_span)} })
    : PayloadSize \in {size - Integrity_size(I)},
      payload_span \in {SubSeq(mem, 1, size - Integrity_size(I))} })

\* the outcome of a serializing call that did not run: nothing is stored
NotSerialized(mem, e) ==
  [mem |-> mem, result |-> 0, bytes_written |-> 0, high_water |-> 0, err |-> e]

\* a Serialize that does not validate
detail_Serialize_NoValidate(I, S, nm, mem, N, message, kept) ==
  [err |-> NoError] @@ detail_SerializeWithoutValidation(I, S, nm, mem, N, message, kept)

\* detail::Serialize: Validate(message), then SerializeWithoutValidation
detail_Serialize(I, S, nm, mem, N, message, kept) ==
  The({ IF IsError(e) THEN NotSerialized(mem, e)
        ELSE [err |-> NoError] @@
             detail_SerializeWithoutValidation(I, S, nm, mem, N, message, kept)
      : e \in {Validate(nm, message)} })

\* a Decoder that tries only the first of its message types
Decoder_Decode_FirstOnly(S, I, types, mem, size, out_message) ==
  IF size < StandardHeaderSize
  THEN Refused(out_message, Error_deserialization("buffer too small for header"))
  ELSE The({ IF IsError(r.err) THEN Refused(out_message, r.err)
             ELSE Done([alt |-> types[1], value |-> r.v])
           : r \in {detail_Deserialize(I, S, types[1], mem, size,
                                       DefaultMessage(types[1]))} })

\* Decoder<Serdes, Integrity, Messages...>::Decode(buffer, out_message): the
\* header is read, the first type whose message_id equals the header's is
\* deserialized into a fresh object, and out_message is assigned on success.
\* A variant is [alt, value]: the alternative held and its message.
Decoder_Decode(S, I, types, mem, size, out_message) ==
  IF size < StandardHeaderSize
  THEN Refused(out_message, Error_deserialization("buffer too small for header"))
  ELSE LET header == GetHeader(mem)
           hits == {i \in 1..Len(types) : LE32(message_id(types[i])) = header.message_id}
       IN  IF hits = {} THEN Refused(out_message, Error_invalid_message_id)
           ELSE The({ The({ IF IsError(r.err) THEN Refused(out_message, r.err)
                            ELSE Done([alt |-> types[i], value |-> r.v])
                          : r \in {detail_Deserialize(I, S, types[i], mem, size,
                                                      DefaultMessage(types[i]))} })
                    : i \in {CHOOSE i \in hits : \A j \in hits : i <= j} })

(***************************************************************************)
(* The Buffer object in memory: data[N], padding up to the alignment of    *)
(* std::size_t, then used_bytes (crunch_detail.hpp, struct Buffer).        *)
(***************************************************************************)
SizeofSizeT == 8

PaddingLen(N) == (SizeofSizeT - (N % SizeofSizeT)) % SizeofSizeT

LE64(v) == LE32(v) \o Zeros(SizeofSizeT - 4)

Memory(b, pad) == b.data \o pad \o LE64(b.used_bytes)

(***************************************************************************)
(* Message objects a program can build with the field API: Field::set and  *)
(* set_without_validation on scalars, the validating String::set,          *)
(* ArrayField::add, MapField::insert, and assignment of submessages.       *)
(***************************************************************************)
Unset(t) == DefaultValue(t)

Set(v) == [value_ |-> v, set_ |-> TRUE]

\* a String holding chars (accepted by String::set)
Str(t, chars) ==
  [buffer_ |-> chars \o Zeros(t.max_size - Len(chars)), current_len_ |-> Len(chars)]

\* an ArrayField after add() of each of elems
Arr(t, elems) ==
  [items_ |-> elems \o [i \in 1..(t.max_size - Len(elems)) |-> DefaultValue(t.elem)],
   current_len_ |-> Len(elems)]

\* a MapField after insert() of each of pairs
MapOf(t, pairs) ==
  [items_ |-> pairs \o [i \in 1..(t.max_size - Len(pairs)) |->
                          [first |-> DefaultValue(t.key), second |-> DefaultValue(t.value)]],
   current_len_ |-> Len(pairs)]

Pair(k, v) == [first |-> k, second |-> v]

MyMessages ==
  { <<f1, f2>> : f1 \in {Unset(MyMessage.fields[1]), Set(<<68, 51, 34, 17>>),
                         Set(<<0, 0, 0, 0>>), Set(<<255, 255, 255, 255>>)},
                 f2 \in {Unset(MyMessage.fields[2]), Set(<<102, 85>>)} }

OtherMessages ==
  { <<f1>> : f1 \in {Unset(OtherMessage.fields[1]), Set(<<255, 255, 255, 255>>)} }

CrossFieldMessages ==
  { <<mode, value>> : mode \in {Unset(CrossFieldMessage.fields[1]), Set(<<0>>), Set(<<1>>)},
                      value \in {Set(<<50, 0, 0, 0>>), Set(<<200, 0, 0, 0>>)} }

\* 1.0f and +infinity; 3.0 and 5.0
FloatMessages ==
  { <<f1, f2>> : f1 \in {Set(<<0, 0, 128, 63>>), Set(<<0, 0, 128, 127>>)},
                 f2 \in {Unset(FloatMessage.fields[2]), Set(<<0, 0, 0, 0, 0, 0, 8, 64>>),
                         Set(<<0, 0, 0, 0, 0, 0, 20, 64>>)} }

WideMessages ==
  { <<f1, f2>> : f1 \in {Unset(WideMessage.fields[1]), Set(<<2, 1>>)},
                 f2 \in {Unset(WideMessage.fields[2]),
                         Set(<<255, 255, 255, 255, 255, 255, 255, 255>>),
                         Set(<<1, 2, 3, 4, 5, 6, 7, 8>>)} }

InnerMessages == { <<f1>> : f1 \in {Unset(InnerMessage.fields[1]), Set(<<5>>), Set(<<255>>)} }

BoxStrings == {Unset(BoxMessage.fields[1]), Set(Str(BoxMessage.fields[1].inner, <<97, 98>>)),
               Set(Str(BoxMessage.fields[1].inner, <<97, 98, 99>>))}

BoxArrays == {Arr(BoxMessage.fields[2], <<>>), Arr(BoxMessage.fields[2], << <<7>> >>),
              Arr(BoxMessage.fields[2], << <<7>>, <<255>> >>)}

BoxMaps == {MapOf(BoxMessage.fields[3], <<>>),
            MapOf(BoxMessage.fields[3], << Pair(<<1>>, <<2>>) >>),
            MapOf(BoxMessage.fields[3], << Pair(<<1>>, <<2>>), Pair(<<3>>, <<4>>) >>)}

BoxSubs == {Unset(BoxMessage.fields[4])} \cup { Set(m) : m \in InnerMessages }

\* everything full with one member varying, and everything empty
BoxMessages ==
  LET empty == <<Unset(BoxMessage.fields[1]), Arr(BoxMessage.fields[2], <<>>),
                 MapOf(BoxMessage.fields[3], <<>>), Unset(BoxMessage.fields[4])>>
      full == <<Set(Str(BoxMessage.fields[1].inner, <<97, 98, 99>>)),
                Arr(BoxMessage.fields[2], << <<7>>, <<255>> >>),
                MapOf(BoxMessage.fields[3], << Pair(<<1>>, <<2>>), Pair(<<3>>, <<4>>) >>),
                Set(<<Set(<<5>>)>>)>>
  IN  {empty} \cup { [full EXCEPT ![1] = x] : x \in BoxStrings }
              \cup { [full EXCEPT ![2] = x] : x \in BoxArrays }
              \cup { [full EXCEPT ![3] = x] : x \in BoxMaps }
              \cup { [full EXCEPT ![4] = x] : x \in BoxSubs }

\* the second revision: a one-character string, a negative map value, the
\* new field
BoxMessagesV2 ==
  { <<s, Arr(BoxMessageV2.fields[2], <<>>), m, Unset(BoxMessageV2.fields[4]), f5>> :
      s \in {Set(Str(BoxMessageV2.fields[1].inner, <<97>>)),
             Set(Str(BoxMessageV2.fields[1].inner, <<97, 98>>))},
      m \in {MapOf(BoxMessageV2.fields[3], <<>>),
             MapOf(BoxMessageV2.fields[3], << Pair(<<1>>, <<255>>) >>)},
      f5 \in {Unset(BoxMessageV2.fields[5]), Set(<<9>>)} }

Messages(nm) ==
  CASE nm = "MyMessage" -> MyMessages
    [] nm = "OtherMessage" -> OtherMessages
    [] nm = "CrossFieldMessage" -> CrossFieldMessages
    [] nm = "FloatMessage" -> FloatMessages
    [] nm = "WideMessage" -> WideMessages
    [] nm = "InnerMessage" -> InnerMessages
    [] nm = "BoxMessage" -> BoxMessages
    [] nm = "BoxMessageV2" -> BoxMessagesV2

(***************************************************************************)
(* Bytes arriving from a peer: a message of type nm2 serialized with       *)
(* serdes S2 by a program whose library has the given CrunchVersion.       *)
(***************************************************************************)
PeerImage(I, S2, nm2, m2, version) ==
  The({ The({ body \o Integrity_calculate(I, body)
            : body \in {<<version>> \o SubSeq(r.mem, 2, r.bytes_written)} })
      : r \in {detail_SerializeWithoutValidation(
                 I, S2, nm2, Zeros(Serdes_Size(S2, nm2) + Integrity_size(I) + SizeofSizeT),
                 Serdes_Size(S2, nm2) + Integrity_size(I), m2, TRUE)} })

\* the type a peer may send instead of nm
OtherType(nm) ==
  CASE nm = "BoxMessage" -> "BoxMessageV2"
    [] nm = "MyMessage" -> "OtherMessage"
    [] OTHER -> "MyMessage"

\* a message a peer sends when all goes well
TypicalMessage(nm) == CHOOSE m \in Messages(nm) : ~IsError(Validate(nm, m))

\* what a peer may be: built with an older library, sending another type,
\* or using another serdes
Peers(nm, S, typical) ==
  {[msg_type |-> nm, serdes |-> S, msg |-> typical, version |-> CrunchVersion - 1]} \cup
  {[msg_type |-> OtherType(nm), serdes |-> S, msg |-> m, version |-> CrunchVersion] :
     m \in Messages(OtherType(nm))} \cup
  {[msg_type |-> nm, serdes |-> S2, msg |-> typical, version |-> CrunchVersion] :
     S2 \in SerdesPolicies \ {S}}

PeerImages(nm, I, S) ==
  { PeerImage(I, p.serdes, p.msg_type, p.msg, p.version) :
      p \in Peers(nm, S, TypicalMessage(nm)) }

(***************************************************************************)
(* State machine: one program holding a message, a Buffer for it and an    *)
(* output message, and calling the public API of crunch.hpp.               *)
(***************************************************************************)
MessageTypes == {"MyMessage", "CrossFieldMessage", "FloatMessage", "WideMessage", "BoxMessage"}

\* the integrity policies each message type is instantiated with
IntegrityOf(nm) ==
  CASE nm = "CrossFieldMessage" -> {"Parity"}
    [] nm = "FloatMessage" -> {"CRC16"}
    [] nm = "BoxMessage" -> {"CRC16"}
    [] OTHER -> IntegrityPolicies

Configurations ==
  { c \in [msg_type : MessageTypes, integrity : IntegrityPolicies, serdes : SerdesPolicies] :
      c.integrity \in IntegrityOf(c.msg_type) }

\* a used prefix cut down to at most this many bytes
TruncateMax == 1

VARIABLES
  cfg,      \* template arguments: [msg_type, integrity, serdes]
  msg,      \* the message passed to Serialize
  buffer,   \* the Buffer: [data, used_bytes]
  padding,  \* the bytes between buffer.data and buffer.used_bytes
  out,      \* the message passed to Deserialize
  origin,   \* which operation produced the buffer's content
  last      \* the last call: op, err, the count the serdes returned and one
            \* past the highest index stored to

vars == <<cfg, msg, buffer, padding, out, origin, last>>

\* the N of Buffer<Message, Integrity, Serdes, N>
N == Len(buffer.data)

Call(op, err, count, high_water) ==
  [op |-> op, err |-> err, count |-> count, high_water |-> high_water]

Init ==
  /\ cfg \in Configurations
  /\ msg = DefaultMessage(cfg.msg_type)
  /\ buffer = GetBuffer(cfg.msg_type, cfg.integrity, cfg.serdes)
  /\ padding = Zeros(PaddingLen(N))
  /\ out = DefaultMessage(cfg.msg_type)
  /\ origin = "GetBuffer"
  /\ last = Call("GetBuffer", NoError, 0, 0)

\* the program fills its message through the field API
Assign ==
  /\ last.op = "GetBuffer"
  /\ msg' \in Messages(cfg.msg_type)
  /\ last' = Call("Assign", NoError, 0, 0)
  /\ UNCHANGED <<cfg, buffer, padding, out, origin>>

\* The Buffer after a serializing call that returned r.  Stores at indices N
\* and above are out of bounds: they land in the padding and in used_bytes,
\* or the build drops them; used_bytes is assigned afterwards.
Written(r, kept) ==
  [buffer |-> [data |-> SubSeq(r.mem, 1, N), used_bytes |-> r.result],
   padding |-> IF kept THEN SubSeq(r.mem, N + 1, N + Len(padding)) ELSE padding]

\* whether out-of-bounds stores land
Outcomes(r) == IF r.high_water > N THEN BOOLEAN ELSE {TRUE}

\* Crunch::Serialize(buffer, msg)
Serialize ==
  \E r \in {detail_Serialize(cfg.integrity, cfg.serdes, cfg.msg_type,
                             Memory(buffer, padding), N, msg, TRUE)} :
    /\ last.op # "GetBuffer"
    /\ IF IsError(r.err)
       THEN UNCHANGED <<buffer, padding, origin>>
       ELSE \E w \in {Written(r, kept) : kept \in Outcomes(r)} :
              /\ buffer' = w.buffer
              /\ padding' = w.padding
              /\ origin' = "Serialize"
    /\ last' = Call("Serialize", r.err, r.bytes_written, r.high_water)
    /\ UNCHANGED <<cfg, msg, out>>

\* Crunch::SerializeWithoutValidation(buffer, msg)
SerializeWithoutValidation ==
  \E r \in {detail_SerializeWithoutValidation(cfg.integrity, cfg.serdes, cfg.msg_type,
                                              Memory(buffer, padding), N, msg, TRUE)} :
    /\ last.op # "GetBuffer"
    /\ \E w \in {Written(r, kept) : kept \in Outcomes(r)} :
         /\ buffer' = w.buffer
         /\ padding' = w.padding
    /\ origin' = "SerializeWithoutValidation"
    /\ last' = Call("SerializeWithoutValidation", NoError, r.bytes_written, r.high_water)
    /\ UNCHANGED <<cfg, msg, out>>

\* Crunch::Deserialize(buffer, out)
Deserialize ==
  \E r \in {detail_Deserialize(cfg.integrity, cfg.serdes, cfg.msg_type,
                               Memory(buffer, padding), buffer.used_bytes, out)} :
    /\ last.op # "GetBuffer"
    /\ out' = r.v
    /\ last' = Call("Deserialize", r.err, 0, 0)
    /\ UNCHANGED <<cfg, msg, buffer, padding, origin>>

\* bytes from a peer are copied into buffer.data and used_bytes is set to
\* their count
Receive ==
  /\ last.op = "GetBuffer"
  /\ \E image \in PeerImages(cfg.msg_type, cfg.integrity, cfg.serdes) :
       /\ Len(image) <= N
       /\ buffer' = [data |-> image \o SubSeq(buffer.data, Len(image) + 1, N),
                     used_bytes |-> Len(image)]
  /\ origin' = "Receive"
  /\ last' = Call("Receive", NoError, 0, 0)
  /\ UNCHANGED <<cfg, msg, padding, out>>

\* only the first bytes of a freshly serialized message are handed on
Truncate ==
  /\ last.op \in {"Serialize", "SerializeWithoutValidation"}
  /\ origin \in {"Serialize", "SerializeWithoutValidation"}
  /\ \E n \in (0..TruncateMax) \cup {buffer.used_bytes - 1} :
       /\ n >= 0 /\ n < buffer.used_bytes
       /\ buffer' = [buffer EXCEPT !.used_bytes = n]
  /\ origin' = "Truncate"
  /\ last' = Call("Truncate", NoError, 0, 0)
  /\ UNCHANGED <<cfg, msg, padding, out>>

Next ==
  \/ Assign
  \/ Serialize
  \/ SerializeWithoutValidation
  \/ Deserialize
  \/ Receive
  \/ Truncate

Spec == Init /\ [][Next]_vars

(***************************************************************************)
(* Corruption in transit: one bit of the used prefix of a freshly          *)
(* serialized, checksummed buffer is inverted (test_integrity.cpp).        *)
(***************************************************************************)
\* bytes with bit b of byte i inverted
FlipBitAt(bytes, i, b) ==
  [bytes EXCEPT ![i] = IF (@ \div (2 ^ b)) % 2 = 1 THEN @ - (2 ^ b) ELSE @ + (2 ^ b)]

\* the message types whose buffers are corrupted
CorruptedTypes == {"MyMessage", "WideMessage"}

InitIntegrity ==
  /\ Init
  /\ cfg.msg_type \in CorruptedTypes
  /\ cfg.integrity # "None"

\* buffer.data[i] ^= std::byte{1 << b} for an index i of the used prefix
FlipBit ==
  /\ last.op = "Serialize" /\ ~IsError(last.err)
  /\ \E i \in 1..Min2(buffer.used_bytes, N), b \in 0..7 :
       buffer' = [buffer EXCEPT !.data = FlipBitAt(buffer.data, i, b)]
  /\ origin' = "FlipBit"
  /\ last' = Call("FlipBit", NoError, 0, 0)
  /\ UNCHANGED <<cfg, msg, padding, out>>

NextIntegrity ==
  \/ Assign
  \/ Serialize
  \/ FlipBit
  \/ Deserialize

SpecIntegrity == InitIntegrity /\ [][NextIntegrity]_vars

(***************************************************************************)
(* A program that receives frames of several message types and hands them  *)
(* to a Decoder (test_decoder.cpp).  `out` is the Decoder's variant.       *)
(***************************************************************************)
\* the Messages... of the Decoder
DecoderTypes == <<"MyMessage", "OtherMessage", "WideMessage">>

\* the message types whose Buffers the program holds; the last one is not
\* known to the Decoder
DecoderBufferTypes == {"MyMessage", "WideMessage", "CrossFieldMessage"}

\* VariantType{}: the first alternative, value-initialised
DefaultVariant == [alt |-> DecoderTypes[1], value |-> DefaultMessage(DecoderTypes[1])]

InitDecoder ==
  /\ cfg \in {c \in Configurations : c.msg_type \in DecoderBufferTypes}
  /\ msg = DefaultMessage(cfg.msg_type)
  /\ buffer = GetBuffer(cfg.msg_type, cfg.integrity, cfg.serdes)
  /\ padding = Zeros(PaddingLen(N))
  /\ out = DefaultVariant
  /\ origin = "GetBuffer"
  /\ last = Call("GetBuffer", NoError, 0, 0)

\* decoder.Decode(buffer.serialized_message_span(), out)
Decode ==
  \E r \in {Decoder_Decode(cfg.serdes, cfg.integrity, DecoderTypes,
                            Memory(buffer, padding), buffer.used_bytes, out)} :
    /\ last.op # "GetBuffer"
    /\ out' = r.v
    /\ last' = Call("Decode", r.err, 0, 0)
    /\ UNCHANGED <<cfg, msg, buffer, padding, origin>>

NextDecoder ==
  \/ Assign
  \/ Serialize
  \/ SerializeWithoutValidation
  \/ Receive
  \/ Truncate
  \/ Decode

SpecDecoder == InitDecoder /\ [][NextDecoder]_vars

(***************************************************************************)
(* A program that fills and edits a message through the field API and      *)
(* validates it (test_validation.cpp, test_string.cpp, test_map_field.cpp, *)
(* test_types.cpp).  `last` records the call: the operation, the index of  *)
(* the field it was made on, its arguments, the error and the value        *)
(* returned.                                                               *)
(***************************************************************************)
FieldApiTypes == {"MyMessage", "CrossFieldMessage", "BoxMessage"}

FieldCall(op, field, args, err, ret) ==
  [op |-> op, field |-> field, args |-> args, err |-> err, ret |-> ret]

\* the scalar arguments used: 1, a second value (2 for one-byte scalars, 200
\* else) and -1
ScalarArgs(t) ==
  {IntAsBytes(1, t.width), IntAsBytes(IF t.width = 1 THEN 2 ELSE 200, t.width),
   [i \in 1..t.width |-> 255] \o <<>>}

\* "", "a", "ab", "abc", "abcd"
StringArgs == {SubSeq(<<97, 98, 99, 100>>, 1, n) : n \in 0..4}

\* the arguments passed for a value of type t
Args(t) ==
  CASE t.kind = "scalar" -> ScalarArgs(t)
    [] t.kind = "string" -> StringArgs
    [] t.kind = "message" -> Messages(t.name)

\* the members a run of the program edits: all of them for the messages of
\* scalars; for BoxMessage one member, or the string and the submessage
MemberSets(nm) ==
  IF nm = "BoxMessage" THEN {{1}, {2}, {3}, {4}, {1, 4}}
  ELSE {1..NumFields(nm)}

\* the indices of the edited fields of kind k
FieldsOfKind(k) == {i \in cfg.members : Fields(cfg.msg_type)[i].kind = k}

InitFields ==
  /\ cfg \in {[msg_type |-> nm, integrity |-> "None", serdes |-> "Packed", members |-> ms] :
               nm \in FieldApiTypes, ms \in UNION {MemberSets(t) : t \in FieldApiTypes}}
  /\ cfg.members \in MemberSets(cfg.msg_type)
  /\ msg = DefaultMessage(cfg.msg_type)
  /\ buffer = GetBuffer(cfg.msg_type, cfg.integrity, cfg.serdes)
  /\ padding = Zeros(PaddingLen(N))
  /\ out = DefaultMessage(cfg.msg_type)
  /\ origin = "GetBuffer"
  /\ last = FieldCall("GetBuffer", 0, <<>>, NoError, TRUE)

\* msg.field.set(val)
FieldSet ==
  \E i \in FieldsOfKind("field") :
    \E val \in Args(Fields(cfg.msg_type)[i].inner) :
      \E r \in {Field_set(Fields(cfg.msg_type)[i], msg[i], val)} :
        /\ msg' = [msg EXCEPT ![i] = r.v]
        /\ last' = FieldCall("set", i, <<val>>, r.err, TRUE)
        /\ UNCHANGED <<cfg, buffer, padding, out, origin>>

\* msg.field.set_without_validation(val), offered for scalars
FieldSetWithoutValidation ==
  \E i \in FieldsOfKind("field") :
    /\ Fields(cfg.msg_type)[i].inner.kind = "scalar"
    /\ \E val \in Args(Fields(cfg.msg_type)[i].inner) :
         /\ msg' = [msg EXCEPT ![i] = Field_set_without_validation(Fields(cfg.msg_type)[i],
                                                                  msg[i], val)]
         /\ last' = FieldCall("set_without_validation", i, <<val>>, NoError, TRUE)
    /\ UNCHANGED <<cfg, buffer, padding, out, origin>>

\* msg.field.clear()
FieldClear ==
  \E i \in FieldsOfKind("field") :
    /\ msg' = [msg EXCEPT ![i] = Field_clear(Fields(cfg.msg_type)[i], msg[i])]
    /\ last' = FieldCall("clear", i, <<>>, NoError, TRUE)
    /\ UNCHANGED <<cfg, buffer, padding, out, origin>>

\* msg.array.add(val)
ArrayAdd ==
  \E i \in FieldsOfKind("array") :
    \E val \in Args(Fields(cfg.msg_type)[i].elem) :
      \E r \in {ArrayField_add(Fields(cfg.msg_type)[i], msg[i], val)} :
        /\ msg' = [msg EXCEPT ![i] = r.v]
        /\ last' = FieldCall("add", i, <<val>>, r.err, TRUE)
        /\ UNCHANGED <<cfg, buffer, padding, out, origin>>

\* msg.array.clear() and msg.map.clear()
ContainerClear ==
  \E i \in FieldsOfKind("array") \cup FieldsOfKind("map") :
    /\ msg' = [msg EXCEPT ![i] = Container_clear(msg[i])]
    /\ last' = FieldCall("clear", i, <<>>, NoError, TRUE)
    /\ UNCHANGED <<cfg, buffer, padding, out, origin>>

\* msg.map.insert(key, value)
MapInsert ==
  \E i \in FieldsOfKind("map") :
    \E key \in Args(Fields(cfg.msg_type)[i].key), value \in Args(Fields(cfg.msg_type)[i].value) :
      \E r \in {MapField_insert(Fields(cfg.msg_type)[i], msg[i], key, value)} :
        /\ msg' = [msg EXCEPT ![i] = r.v]
        /\ last' = FieldCall("insert", i, <<key, value>>, r.err, TRUE)
        /\ UNCHANGED <<cfg, buffer, padding, out, origin>>

\* msg.map.remove(key)
MapRemove ==
  \E i \in FieldsOfKind("map") :
    \E key \in Args(Fields(cfg.msg_type)[i].key) :
      \E r \in {MapField_remove(Fields(cfg.msg_type)[i], msg[i], key)} :
        /\ msg' = [msg EXCEPT ![i] = r.v]
        /\ last' = FieldCall("remove", i, <<key>>, NoError, r.ret)
        /\ UNCHANGED <<cfg, buffer, padding, out, origin>>

\* Crunch::Validate(msg)
CallValidate ==
  /\ last.op # "Validate"
  /\ last' = FieldCall("Validate", 0, <<>>, Validate(cfg.msg_type, msg), TRUE)
  /\ UNCHANGED <<cfg, msg, buffer, padding, out, origin>>

NextFields ==
  \/ FieldSet
  \/ FieldSetWithoutValidation
  \/ FieldClear
  \/ ArrayAdd
  \/ ContainerClear
  \/ MapInsert
  \/ MapRemove
  \/ CallValidate

SpecFields == InitFields /\ [][NextFields]_vars

(***************************************************************************)
(* Frames from a peer that does not use this library: a serialized message *)
(* with one payload byte changed, or a TLV payload put together record by  *)
(* record (test_tlv_layout.cpp builds such payloads by hand).  The frames  *)
(* carry a correct header and checksum.                                    *)
(***************************************************************************)
WireTypes == {"MyMessage", "BoxMessage"}

\* the values a payload byte is changed to
PatchValues == {0, 1, 2, 3, 255}

\* a payload is made of at most this many records
CraftMax == 2

\* body followed by its checksum
Frame(I, body) == body \o Integrity_calculate(I, body)

\* (field_id << WireTypeBits) | wire_type as a uint64_t
TagOf(id, wt) == U64OfInt((id * (2 ^ WireTypeBits)) + wt)

\* the tag of field id + 2^32
WideTagOf(id, wt) == [TagOf(id, wt) EXCEPT ![32 + WireTypeBits + 1] = 1]

\* a TLV record: the tag, the bytes behind the tag, and the length or count
\* those bytes announce for a string, array or map (0 else)
Record(tag, body, count) == [tag |-> tag, body |-> body, count |-> count]

\* a length prefix followed by content
LengthDelimited(content) == Varint_encode(U64OfInt(Len(content))) \o content

\* k one-byte elements 7, 7, ...; k pairs of one-byte key i and value 9
PackedElements(k) == [j \in 1..k |-> 7] \o <<>>

PackedPairs(k) == [j \in 1..(2 * k) |-> IF j % 2 = 1 THEN (j + 1) \div 2 ELSE 9] \o <<>>

\* announced size and size present: fitting, one too many, and one too many
\* announced with the content cut short
Announced(max) == {<<1, 1>>, <<max + 1, max + 1>>, <<max + 1, 1>>}

\* the records written for a field of type t
CraftedFor(t) ==
  CASE t.kind = "array" ->
         { Record(TagOf(t.id, WireType_LengthDelimited),
                  LengthDelimited(Varint_encode(U64OfInt(a[1])) \o PackedElements(a[2])), a[1])
           : a \in Announced(t.max_size) }
    [] t.kind = "map" ->
         { Record(TagOf(t.id, WireType_LengthDelimited),
                  LengthDelimited(Varint_encode(U64OfInt(a[1])) \o PackedPairs(a[2])), a[1])
           : a \in Announced(t.max_size) }
    [] t.kind = "field" /\ t.inner.kind = "string" ->
         { Record(TagOf(t.id, WireType_LengthDelimited),
                  Varint_encode(U64OfInt(a[1])) \o SubSeq(<<97, 98, 99, 100, 101, 102>>, 1, a[2]),
                  a[1])
           : a \in {<<2, 2>>, <<t.inner.max_size, t.inner.max_size>>,
                    <<t.inner.max_size + 1, t.inner.max_size + 1>>,
                    <<200, t.inner.max_size + 1>>} }
    [] t.kind = "field" /\ t.inner.kind = "message" ->
         { Record(TagOf(t.id, WireType_LengthDelimited), LengthDelimited(inner), 0)
           : inner \in {<<>>, Varint_encode(TagOf(1, WireType_Varint)) \o <<5>>,
                        Varint_encode(TagOf(1, WireType_Varint)) \o <<9>>} }
    [] t.kind = "field" /\ t.inner.kind = "scalar" ->
         { Record(tag, <<v>>, 0)
           : tag \in {TagOf(t.id, WireType_Varint), WideTagOf(t.id, WireType_Varint)},
             v \in {5, 9} }

\* records for the fields of nm, and for field ids nm does not declare: 0 and
\* the one after the last
CraftedRecords(nm) ==
  UNION { CraftedFor(Fields(nm)[i]) : i \in 1..NumFields(nm) } \cup
  { Record(TagOf(id, WireType_Varint), <<5>>, 0) : id \in {0, NumFields(nm) + 1} } \cup
  { Record(TagOf(NumFields(nm) + 1, WireType_LengthDelimited), LengthDelimited(<<5>>), 0) }

RECURSIVE RecordBytes(_, _)
RecordBytes(records, i) ==
  IF i > Len(records) THEN <<>>
  ELSE Varint_encode(records[i].tag) \o records[i].body \o RecordBytes(records, i + 1)

\* the TLV frame of a payload: header, 4-byte payload length, payload
TlvFrame(I, nm, payload) ==
  Frame(I, WriteHeader(nm, "TLV") \o LE32(Len(payload)) \o payload)

InitWire ==
  /\ Init
  /\ cfg.msg_type \in WireTypes
  /\ cfg.msg_type = "MyMessage" => cfg.integrity = "Parity"

\* a peer's frame for message m with the byte at offset p changed to v
Patch ==
  /\ last.op = "GetBuffer"
  /\ \E m \in Messages(cfg.msg_type) :
       \E image \in {PeerImage(cfg.integrity, cfg.serdes, cfg.msg_type, m, CrunchVersion)} :
         \E p \in StandardHeaderSize..(Len(image) - Integrity_size(cfg.integrity) - 1),
            v \in PatchValues :
           /\ Len(image) <= N
           /\ image[p + 1] # v
           /\ buffer' = [data |-> Frame(cfg.integrity,
                                        [SubSeq(image, 1, Len(image)
                                                          - Integrity_size(cfg.integrity))
                                           EXCEPT ![p + 1] = v])
                                    \o SubSeq(buffer.data, Len(image) + 1, N),
                         used_bytes |-> Len(image)]
           /\ msg' = m
           /\ origin' = [op |-> "Patch", at |-> p, value |-> v]
  /\ last' = Call("Patch", NoError, 0, 0)
  /\ UNCHANGED <<cfg, padding, out>>

\* a TLV frame whose payload is a sequence of hand-written records
Craft ==
  /\ last.op = "GetBuffer"
  /\ cfg.serdes = "TLV"
  /\ \E n \in 1..CraftMax :
       \E records \in [1..n -> CraftedRecords(cfg.msg_type)] :
         \E image \in {TlvFrame(cfg.integrity, cfg.msg_type, RecordBytes(records, 1))} :
           /\ Len(image) <= N
           /\ buffer' = [data |-> image \o SubSeq(buffer.data, Len(image) + 1, N),
                         used_bytes |-> Len(image)]
           /\ origin' = [op |-> "Craft", records |-> records]
  /\ last' = Call("Craft", NoError, 0, 0)
  /\ UNCHANGED <<cfg, msg, padding, out>>

NextWire ==
  \/ Patch
  \/ Craft
  \/ Deserialize

SpecWire == InitWire /\ [][NextWire]_vars

(***************************************************************************)
(* A program that encodes values and decodes byte sequences with Varint    *)
(* (test_varint.cpp).  `msg` is the span passed to decode, `out` what       *)
(* decode returned, `last` the call with the offset passed.                *)
(***************************************************************************)
\* the longest input: one byte more than a varint may have
VarintLenMax == 11

\* continuation bytes with payload 0, 1 and 0x7F; final bytes
ContinuationBytes == {128, 129, 255}

FinalBytes == {0, 1, 2, 127}

\* k equal continuation bytes, then nothing or a final byte, within VarintLenMax
VarintInputs ==
  { [i \in 1..k |-> c] \o tail :
      k \in 0..VarintLenMax, c \in ContinuationBytes,
      tail \in {<<>>} \cup {<<f>> : f \in FinalBytes} }

\* 0, 127, 128, 300, 2^63 and 2^64 - 1
VarintValues ==
  {U64OfInt(0), U64OfInt(127), U64OfInt(128), U64OfInt(300),
   [i \in 1..64 |-> IF i = 64 THEN 1 ELSE 0] \o <<>>, [i \in 1..64 |-> 1] \o <<>>}

VarintCall(op, offset) == [op |-> op, offset |-> offset]

InitVarint ==
  /\ cfg = [msg_type |-> "MyMessage", integrity |-> "None", serdes |-> "TLV"]
  /\ msg \in {input \in VarintInputs : Len(input) <= VarintLenMax}
  /\ buffer = GetBuffer(cfg.msg_type, cfg.integrity, cfg.serdes)
  /\ padding = Zeros(PaddingLen(N))
  /\ out = nullopt
  /\ origin = "GetBuffer"
  /\ last = VarintCall("GetBuffer", 0)

\* Varint::encode(value, buffer, 0): the span handed on holds the bytes written
VarintEncode ==
  /\ last.op = "GetBuffer"
  /\ \E value \in VarintValues : msg' = Varint_encode(value)
  /\ origin' = "encode"
  /\ last' = VarintCall("encode", 0)
  /\ UNCHANGED <<cfg, buffer, padding, out>>

\* Varint::decode(input, offset)
VarintDecode ==
  /\ last.op # "decode"
  /\ \E offset \in {0, 1} :
       /\ out' = Varint_decode(msg, offset)
       /\ last' = VarintCall("decode", offset)
  /\ UNCHANGED <<cfg, msg, buffer, padding, origin>>

NextVarint ==
  \/ VarintEncode
  \/ VarintDecode

SpecVarint == InitVarint /\ [][NextVarint]_vars

(***************************************************************************)
(* A program that writes a message in a static layout into a buffer that   *)
(* was used before.  The message is either edited through the field API or *)
(* taken from a peer's frame (a relay); the buffer holds 0xAA bytes or the  *)
(* frame received.                                                         *)
(***************************************************************************)
StaticSerdes == {"Packed", "Aligned4", "Aligned8"}

InitEncode ==
  /\ cfg \in {[msg_type |-> nm, integrity |-> "None", serdes |-> S, members |-> ms] :
               nm \in FieldApiTypes, S \in StaticSerdes,
               ms \in UNION {MemberSets(t) : t \in FieldApiTypes}}
  /\ cfg.members \in MemberSets(cfg.msg_type)
  /\ msg = DefaultMessage(cfg.msg_type)
  /\ buffer = GetBuffer(cfg.msg_type, cfg.integrity, cfg.serdes)
  /\ padding = Zeros(PaddingLen(N))
  /\ out = DefaultMessage(cfg.msg_type)
  /\ origin = "GetBuffer"
  /\ last = FieldCall("GetBuffer", 0, <<>>, NoError, TRUE)

\* std::fill(buffer.data.begin(), buffer.data.end(), std::byte{0xAA})
Fill ==
  /\ last.op = "GetBuffer"
  /\ buffer' = [buffer EXCEPT !.data = [i \in 1..N |-> 170] \o <<>>]
  /\ last' = FieldCall("fill", 0, <<>>, NoError, TRUE)
  /\ UNCHANGED <<cfg, msg, padding, out, origin>>

\* a peer's frame of a valid message, one byte behind the header changed to v,
\* is copied into the buffer
ReceivePatched ==
  /\ last.op = "GetBuffer"
  /\ \E image \in {PeerImage(cfg.integrity, cfg.serdes, cfg.msg_type, m, CrunchVersion) :
                      m \in {x \in Messages(cfg.msg_type) : ~IsError(Validate(cfg.msg_type, x))}} :
       \E p \in StandardHeaderSize..(Len(image) - 1), v \in PatchValues :
         /\ Len(image) <= N
         /\ image[p + 1] # v
         /\ buffer' = [data |-> [image EXCEPT ![p + 1] = v]
                                  \o SubSeq(buffer.data, Len(image) + 1, N),
                       used_bytes |-> Len(image)]
         /\ origin' = [op |-> "Patch", at |-> p, value |-> v]
  /\ last' = FieldCall("Receive", 0, <<>>, NoError, TRUE)
  /\ UNCHANGED <<cfg, msg, padding, out>>

\* Crunch::Deserialize(buffer, msg): the relay decodes into its message
Load ==
  /\ last.op = "Receive"
  /\ \E r \in {detail_Deserialize(cfg.integrity, cfg.serdes, cfg.msg_type,
                                   Memory(buffer, padding), buffer.used_bytes, msg)} :
       /\ msg' = r.v
       /\ last' = FieldCall("Deserialize", 0, <<>>, r.err, TRUE)
  /\ UNCHANGED <<cfg, buffer, padding, out, origin>>

\* Crunch::SerializeWithoutValidation(buffer, msg)
Encode ==
  /\ last.op \notin {"GetBuffer", "Receive", "SerializeWithoutValidation"}
  /\ \E r \in {detail_SerializeWithoutValidation(cfg.integrity, cfg.serdes, cfg.msg_type,
                                                  Memory(buffer, padding), N, msg, TRUE)} :
       \E w \in {Written(r, kept) : kept \in Outcomes(r)} :
         /\ buffer' = w.buffer
         /\ padding' = w.padding
  /\ last' = FieldCall("SerializeWithoutValidation", 0, <<>>, NoError, TRUE)
  /\ UNCHANGED <<cfg, msg, out, origin>>

\* the message is edited before it is loaded or written, not after
Edit ==
  /\ last.op \notin {"Receive", "Deserialize", "SerializeWithoutValidation"}
  /\ \/ FieldSet
     \/ FieldSetWithoutValidation
     \/ FieldClear
     \/ ArrayAdd
     \/ ContainerClear
     \/ MapInsert
     \/ MapRemove

NextEncode ==
  \/ Fill
  \/ ReceivePatched
  \/ Load
  \/ Edit
  \/ Encode

SpecEncode == InitEncode /\ [][NextEncode]_vars

(***************************************************************************)
(* Validation of one value.  cfg.type is an instantiation of Scalar,       *)
(* String, ArrayField or MapField with one or two validators, msg is the   *)
(* value, last.err the result of its Validate.                             *)
(***************************************************************************)
ValidatedTypes ==
  {Int8(<<V_Positive, V_Even>>), Int8(<<V_Even, V_NotZero>>), Int8(<<V_None>>),
   StringT(3, <<V_LengthAtLeast(2), V_Length(3)>>),
   ArrayT(2, Int8(<<V_Positive>>), 2, <<V_LengthAtLeast(1), V_Length(2)>>),
   ArrayT(1, Int8(<<V_Even>>), 2, <<V_None>>),
   ArrayT(2, StringT(3, <<V_LengthAtLeast(2)>>), 2, <<V_Length(2)>>),
   MapT(3, Int8(<<V_Even>>), Int8(<<V_Positive>>), 2, <<V_LengthAtLeast(1), V_Length(2)>>)}

\* 0, 1, 2, -2, -1
ValidatedScalars == {<<0>>, <<1>>, <<2>>, <<254>>, <<255>>}

\* the values of type t that are validated
RECURSIVE ValidatedValues(_)
ValidatedValues(t) ==
  CASE t.kind = "scalar" -> ValidatedScalars
    [] t.kind = "string" -> {Str(t, chars) : chars \in StringArgs}
    [] t.kind = "array" ->
         {Arr(t, elems) : elems \in UNION {[1..n -> ValidatedValues(t.elem)] : n \in 0..2}}
    [] t.kind = "map" ->
         {MapOf(t, pairs) :
            pairs \in UNION {[1..n -> {Pair(k, v) : k \in {<<1>>, <<2>>},
                                                    v \in {<<2>>, <<255>>}}] : n \in 0..2}}

\* the ids a Scalar or a String is validated under
ValidatedIds == {0, 7}

InitValidators ==
  /\ \E t \in ValidatedTypes :
       /\ cfg = [type |-> t]
       /\ msg \in ValidatedValues(t)
  /\ buffer = <<>>
  /\ padding = <<>>
  /\ out = <<>>
  /\ origin = "GetBuffer"
  /\ last = FieldCall("GetBuffer", 0, <<>>, NoError, TRUE)

\* Scalar::Validate(v, id), String::Validate(id), ArrayField::Validate() and
\* MapField::Validate()
ValidateValue ==
  /\ last.op = "GetBuffer"
  /\ \E id \in ValidatedIds :
       /\ cfg.type.kind \in {"array", "map"} => id = 0
       /\ last' = FieldCall("Validate", id, <<>>,
                            CASE cfg.type.kind = "scalar" -> Scalar_Validate(cfg.type, msg, id)
                              [] cfg.type.kind = "string" ->
                                   String_Validate(cfg.type, String_get(msg), id)
                              [] cfg.type.kind = "array" -> ArrayField_Validate(cfg.type, msg)
                              [] cfg.type.kind = "map" -> MapField_Validate(cfg.type, msg),
                            TRUE)
  /\ UNCHANGED <<cfg, msg, buffer, padding, out, origin>>

NextValidators == ValidateValue

SpecValidators == InitValidators /\ [][NextValidators]_vars

(***************************************************************************)
(* Two BoxMessages decoded from received Packed frames and compared.  The  *)
(* frames carry no pair or two pairs in the map's slots, with keys 1 or 3  *)
(* and values 2 or 4, as any peer can write them.                          *)
(***************************************************************************)
WireKeys == {<<1>>, <<3>>}

WireValues == {<<2>>, <<4>>}

WirePairs ==
  UNION { [1..n -> {Pair(k, v) : k \in WireKeys, v \in WireValues}] : n \in {0, 2} }

InitMapEq ==
  /\ cfg = [msg_type |-> "BoxMessage", integrity |-> "None", serdes |-> "Packed"]
  /\ msg = DefaultMessage(cfg.msg_type)
  /\ buffer = GetBuffer(cfg.msg_type, cfg.integrity, cfg.serdes)
  /\ padding = Zeros(PaddingLen(N))
  /\ out = DefaultMessage(cfg.msg_type)
  /\ origin = "GetBuffer"
  /\ last = FieldCall("GetBuffer", 0, <<>>, NoError, TRUE)

\* a frame whose map slots hold the given pairs is copied into the buffer
ReceivePairs ==
  /\ last.op # "Receive"
  /\ \E pairs \in WirePairs :
       \E image \in {PeerImage(cfg.integrity, cfg.serdes, cfg.msg_type,
                                [DefaultMessage(cfg.msg_type)
                                   EXCEPT ![3] = MapOf(BoxMessage.fields[3], pairs)],
                                CrunchVersion)} :
         /\ Len(image) <= N
         /\ buffer' = [data |-> image \o SubSeq(buffer.data, Len(image) + 1, N),
                       used_bytes |-> Len(image)]
  /\ last' = FieldCall("Receive", 0, <<>>, NoError, TRUE)
  /\ UNCHANGED <<cfg, msg, padding, out, origin>>

\* msg.map == out.map and out.map == msg.map
Compare ==
  /\ last.op = "Deserialize"
  /\ last' = FieldCall("operator==", 3, <<>>, NoError,
                       [ab |-> MapField_eq(BoxMessage.fields[3], msg[3], out[3]),
                        ba |-> MapField_eq(BoxMessage.fields[3], out[3], msg[3])])
  /\ UNCHANGED <<cfg, msg, buffer, padding, out, origin>>

NextMapEq ==
  \/ ReceivePairs
  \/ Load
  \/ Deserialize
  \/ Compare

SpecMapEq == InitMapEq /\ [][NextMapEq]_vars

(***************************************************************************)
(* Properties of the public API.                                           *)
(***************************************************************************)
Serializing == {"Serialize", "SerializeWithoutValidation"}

\* the buffer holds what the last call, a successful Serialize of msg, left
Serialized == last.op = "Serialize" /\ ~IsError(last.err)

\* C1: for every message m that Validate accepts, under every serdes and
\* integrity policy, Serialize into the buffer from GetBuffer succeeds, and
\* Deserialize of that buffer into a default-constructed message succeeds
\* and yields a message equal to m.
C1_RoundTrip ==
  [][/\ (last'.op = "Serialize" /\ ~IsError(Validate(cfg.msg_type, msg)))
          => ~IsError(last'.err)
     /\ (Serialized /\ out = DefaultMessage(cfg.msg_type) /\ last'.op = "Deserialize")
          => (~IsError(last'.err) /\ Message_eq(cfg.msg_type, out', msg))]_vars

\* C2: Serialize and SerializeWithoutValidation store only to byte indices
\* below N = Serdes::Size<M>() + Integrity::size(), intermediate stores and
\* the checksum trailer included, and leave used_bytes in [0, N].
C2_WritesWithinBuffer ==
  (last.op \in Serializing /\ ~IsError(last.err))
    => (last.high_water <= N /\ buffer.used_bytes \in 0..N)

\* C3: for every alignment A in {1, 4, 8}, StaticLayout<A>::Serialize
\* returns the same count for every value of the message type, and that
\* count is StaticLayout<A>::Size<M>().
C3_StaticCountIsSize ==
  (last.op \in Serializing /\ ~IsError(last.err) /\ cfg.serdes # "TLV")
    => last.count = Static_Size(Alignment(cfg.serdes), cfg.msg_type)

\* C4: TlvLayout::Serialize returns bytes_written <= TlvLayout::Size<M>()
\* for every value of the message type, validated or not.
C4_TlvCountAtMostSize ==
  (last.op \in Serializing /\ ~IsError(last.err) /\ cfg.serdes = "TLV")
    => last.count <= Tlv_Size(cfg.msg_type)

\* a TLV serialization of a message with every field set whose Int64 (-1)
\* takes a varint of maximal width
C4_Witness ==
  /\ last.op \in Serializing /\ ~IsError(last.err) /\ cfg.serdes = "TLV"
  /\ cfg.msg_type = "WideMessage"
  /\ msg[1].set_ /\ msg[2].set_
  /\ Len(serialize_scalar_value(msg[2].value_).bytes) = Varint_max_size
  /\ last.count > StandardHeaderSize + SizeofLength + Varint_max_size

\* C5: in a buffer produced by a successful Serialize with the CRC16 or the
\* Parity policy, flipping any single bit of the used prefix makes
\* Deserialize return the Integrity error.
C5_BitFlipDetected ==
  (last.op = "Deserialize" /\ origin = "FlipBit") => last.err = Error_integrity

C7_SerializeValidates ==
  [][last'.op = "Serialize" =>
       IF IsError(Validate(cfg.msg_type, msg))
       THEN /\ last'.err = Validate(cfg.msg_type, msg)
            /\ buffer' = buffer
            /\ padding' = padding
       ELSE ~IsError(last'.err)]_vars

\* Serialize refused an invalid message while the buffer held the bytes of
\* an earlier SerializeWithoutValidation
C7_Witness ==
  /\ last.op = "Serialize" /\ IsError(last.err)
  /\ last.err = Validate(cfg.msg_type, msg)
  /\ origin = "SerializeWithoutValidation" /\ buffer.used_bytes > 0

\* the error of the earliest failing stage of Deserialize(buffer, message)
\* on the `size` bytes at the start of mem: size against the integrity size,
\* the checksum, the header, the decoding of the whole payload (by the
\* decoder of the type's twin without validators), and validation of what
\* was decoded
EarliestStageError(I, S, nm, mem, size, message) ==
  IF size < Integrity_size(I)
  THEN Error_deserialization("buffer too small for checksum")
  ELSE IF Integrity_calculate(I, SubSeq(mem, 1, size - Integrity_size(I)))
            # RdN(mem, size - Integrity_size(I), Integrity_size(I))
  THEN Error_integrity
  ELSE IF IsError(ValidateHeader(nm, S, SubSeq(mem, 1, size - Integrity_size(I))))
  THEN ValidateHeader(nm, S, SubSeq(mem, 1, size - Integrity_size(I)))
  ELSE The({ IF IsError(decoded.err) THEN decoded.err ELSE Validate(nm, decoded.v)
           : decoded \in {Serdes_Deserialize(S, RawName(nm), mem,
                                             size - Integrity_size(I), message)} })

\* C8: Deserialize returns the error of the earliest failing stage in the
\* order: used prefix shorter than the integrity size, checksum mismatch,
\* header (version, format, message id), serdes decoding, validation; the
\* validators run only after the whole payload was decoded without error.
C8_EarliestStage ==
  [][last'.op = "Deserialize" =>
       last'.err = EarliestStageError(cfg.integrity, cfg.serdes, cfg.msg_type,
                                      Memory(buffer, padding), buffer.used_bytes, out)]_vars

\* C9: when Deserialize(buffer, out) returns an error at any stage, out is
\* left equal to its value before the call.
C9_NoPartialResult ==
  [][(last'.op = "Deserialize" /\ IsError(last'.err)) => out' = out]_vars

\* the header of the bytes in the buffer was looked at by the last call
HeaderChecked ==
  /\ last.op = "Deserialize"
  /\ buffer.used_bytes >= Integrity_size(cfg.integrity) + StandardHeaderSize
  /\ last.err # Error_integrity

\* C10: header validation rejects a version other than CrunchVersion, a
\* format other than the serdes's and a message id other than the type's
\* with three pairwise distinct error kinds; the format mismatch gives
\* InvalidFormat and the message-id mismatch InvalidMessageId.
C10_HeaderErrors ==
  HeaderChecked =>
    /\ GetHeader(buffer.data).version # CrunchVersion
         => last.err.code \notin {"OK", "InvalidFormat", "InvalidMessageId"}
    /\ (/\ GetHeader(buffer.data).version = CrunchVersion
        /\ GetHeader(buffer.data).format # GetFormat(cfg.serdes))
         => last.err.code = "InvalidFormat"
    /\ (/\ GetHeader(buffer.data).version = CrunchVersion
        /\ GetHeader(buffer.data).format = GetFormat(cfg.serdes)
        /\ GetHeader(buffer.data).message_id # LE32(message_id(cfg.msg_type)))
         => last.err.code = "InvalidMessageId"

\* a Packed buffer given to an Aligned4 decoder
C10_Witness ==
  /\ HeaderChecked /\ origin = "Receive"
  /\ cfg.serdes = "Aligned4"
  /\ GetHeader(buffer.data).version = CrunchVersion
  /\ GetHeader(buffer.data).format = Format_Packed
  /\ last.err = Error_invalid_format

\* the index in DecoderTypes of the type whose id is in the buffer's header,
\* or 0
HeaderType ==
  LET hits == {i \in 1..Len(DecoderTypes) :
                 LE32(message_id(DecoderTypes[i])) = GetHeader(buffer.data).message_id}
  IN  IF hits = {} THEN 0 ELSE CHOOSE i \in hits : TRUE

\* what the Deserialize pipeline for DecoderTypes[i] makes of the buffer
PipelineFor(i) ==
  detail_Deserialize(cfg.integrity, cfg.serdes, DecoderTypes[i], Memory(buffer, padding),
                     buffer.used_bytes, DefaultMessage(DecoderTypes[i]))

\* C11: Decode of a buffer holding a header returns InvalidMessageId when the
\* header's message id is the id of none of the Decoder's types; when it is
\* the id of type Mi the error is the one the Deserialize pipeline for Mi
\* returns, and on success the variant holds alternative Mi with the value
\* the pipeline decoded.
C11_DecodeDispatch ==
  (last.op = "Decode" /\ buffer.used_bytes >= StandardHeaderSize) =>
    IF HeaderType = 0 THEN last.err = Error_invalid_message_id
    ELSE \E r \in {PipelineFor(HeaderType)} :
           /\ last.err = r.err
           /\ ~IsError(r.err) => out = [alt |-> DecoderTypes[HeaderType], value |-> r.v]

\* a frame of the Decoder's second type was decoded into the variant
C11_Witness ==
  /\ last.op = "Decode" /\ ~IsError(last.err)
  /\ HeaderType = 2 /\ out.alt = DecoderTypes[2] /\ out.value[1].set_

\* the offset at which the static layout stores field i of message type nm
RECURSIVE FieldOffset(_, _, _)
FieldOffset(A, nm, i) ==
  IF i = 1 THEN PayloadStartOffset(A) + SizeofMessageId
  ELSE calculate_field_end_offset(A, Fields(nm)[i - 1], FieldOffset(A, nm, i - 1))

\* the capacity of a string field, an array or a map (0 for other fields)
MaxSizeOf(t) ==
  CASE t.kind \in {"array", "map"} -> t.max_size
    [] t.kind = "field" /\ t.inner.kind = "string" -> t.inner.max_size
    [] OTHER -> 0

HasLength(t) == t.kind \in {"array", "map"} \/ (t.kind = "field" /\ t.inner.kind = "string")

\* the static layout's length word of field i (a string that is marked set,
\* an array or a map) in the buffer is larger than the field's capacity
StaticLengthExceeds(A, nm, i) ==
  LET t == Fields(nm)[i]
      off == FieldOffset(A, nm, i)
      at == IF t.kind = "field" THEN off + 1 + calculate_padding(A, SizeofLength, off + 1)
            ELSE off + calculate_padding(A, SizeofLength, off)
  IN  /\ HasLength(t)
      /\ t.kind = "field" => Rd(buffer.data, off) # 0
      /\ U32(RdN(buffer.data, at, SizeofLength)) > MaxSizeOf(t)

\* the record is for a declared string, array or map and announces a length
\* or count larger than the capacity
RecordExceeds(nm, r) ==
  \E i \in 1..NumFields(nm) :
    /\ HasLength(Fields(nm)[i])
    /\ r.tag = TagOf(Fields(nm)[i].id, WireType_LengthDelimited)
    /\ r.count > MaxSizeOf(Fields(nm)[i])

\* C12: when the first length or count the decoder reads for a string, an
\* array or a map exceeds the declared MaxSize, Deserialize fails with
\* CapacityExceeded, in the static layouts and in TLV.
C12_CapacityChecked ==
  (/\ last.op = "Deserialize"
   /\ IF cfg.serdes = "TLV"
      THEN origin.op = "Craft" /\ RecordExceeds(cfg.msg_type, origin.records[1])
      ELSE \E i \in 1..NumFields(cfg.msg_type) :
             StaticLengthExceeds(Alignment(cfg.serdes), cfg.msg_type, i))
    => last.err.code = "CapacityExceeded"

\* C13: a set(v) on a scalar or string Field that fails (a validator rejects
\* v, or a string v is longer than MaxSize) leaves the stored value and the
\* is-set flag of the field, and the rest of the message, as they were.
C13_FailedSetKeepsField ==
  [][(last'.op = "set" /\ IsError(last'.err)) => msg' = msg]_vars

\* a string that held "ab" still holds it after a set of "abcd" was refused
\* for its length
C13_Witness ==
  /\ last.op = "set" /\ last.err.code = "CapacityExceeded"
  /\ cfg.msg_type = "BoxMessage" /\ last.field = 1
  /\ msg[1].set_ /\ String_get(msg[1].value_) = <<97, 98>>

\* the keys of the active pairs of map m are pairwise distinct
KeysDistinct(t, m) ==
  \A a, b \in 1..m.current_len_ :
    a # b => ~key_equals(t, m.items_[a].first, m.items_[b].first)

\* C14: in every MapField of the program's message and of the message it
\* deserializes into, the keys of the active pairs are pairwise distinct --
\* after insert, remove and clear, and after Deserialize from any buffer.
C14_MapKeysUnique ==
  \A i \in 1..NumFields(cfg.msg_type) :
    Fields(cfg.msg_type)[i].kind = "map" =>
      /\ KeysDistinct(Fields(cfg.msg_type)[i], msg[i])
      /\ KeysDistinct(Fields(cfg.msg_type)[i], out[i])

\* the map member and the arguments of the insert call recorded in c
InsertValid(c) ==
  /\ ~IsError(Map_ItemValidate(Fields(cfg.msg_type)[c.field].key, c.args[1]))
  /\ ~IsError(Map_ItemValidate(Fields(cfg.msg_type)[c.field].value, c.args[2]))

\* C15: insert(k, v) with valid k and v, where k equals a key already
\* stored, returns a Validation error whatever the size of the map (full
\* maps included) and leaves the map as it was.
C15_DuplicateRejected ==
  [][(/\ last'.op = "insert"
      /\ InsertValid(last')
      /\ MapField_has_key(Fields(cfg.msg_type)[last'.field], msg[last'.field], last'.args[1]))
       => (last'.err.code = "ValidationFailed" /\ msg' = msg)]_vars

\* the outcome of the add call recorded in last': refused on a full array,
\* else the element becomes the new last element
AddOutcome ==
  LET f == last'.field
      t == Fields(cfg.msg_type)[f]
      a == msg[f]
  IN  IF a.current_len_ >= t.max_size
      THEN last'.err.code = "CapacityExceeded" /\ msg' = msg
      ELSE /\ ~IsError(last'.err)
           /\ msg'[f].current_len_ = a.current_len_ + 1
           /\ msg'[f].items_[a.current_len_ + 1] = last'.args[1]
           /\ \A j \in 1..a.current_len_ : msg'[f].items_[j] = a.items_[j]
           /\ \A g \in 1..NumFields(cfg.msg_type) : g # f => msg'[g] = msg[g]

\* the insert recorded in last' offers a key not stored to a full map
InsertNewKeyWhenFull ==
  /\ last'.op = "insert"
  /\ msg[last'.field].current_len_ >= Fields(cfg.msg_type)[last'.field].max_size
  /\ ~MapField_has_key(Fields(cfg.msg_type)[last'.field], msg[last'.field], last'.args[1])

\* no array or map of the message holds more than MaxSize elements
SizesWithinCapacity(m) ==
  \A i \in 1..NumFields(cfg.msg_type) :
    Fields(cfg.msg_type)[i].kind \in {"array", "map"} =>
      m[i].current_len_ <= Fields(cfg.msg_type)[i].max_size

\* C16 as stated: add on a full array and insert of any new key into a full
\* map fail with CapacityExceeded and leave the container unchanged; below
\* capacity add appends the element as the new last element; no size exceeds
\* MaxSize.
C16_Original ==
  [][/\ last'.op = "add" => AddOutcome
     /\ InsertNewKeyWhenFull => (last'.err.code = "CapacityExceeded" /\ msg' = msg)
     /\ SizesWithinCapacity(msg')]_vars

\* C16: add on a full array, and insert of a new key with valid key and value
\* into a full map, fail with CapacityExceeded and leave the container
\* unchanged (an invalid key or value is refused first, with its Validation
\* error); below capacity add appends the element as the new last element;
\* no size exceeds MaxSize.
C16_CapacityEnforced ==
  [][/\ last'.op = "add" => AddOutcome
     /\ (InsertNewKeyWhenFull /\ InsertValid(last')) =>
          (last'.err.code = "CapacityExceeded" /\ msg' = msg)
     /\ InsertNewKeyWhenFull => msg' = msg
     /\ SizesWithinCapacity(msg')]_vars

C16_Witness ==
  /\ cfg.msg_type = "BoxMessage"
  /\ last.op = "insert" /\ last.err.code = "CapacityExceeded"
  /\ msg[3].current_len_ = Fields("BoxMessage")[3].max_size
  /\ ~MapField_has_key(Fields("BoxMessage")[3], msg[3], last.args[1])
  /\ msg[2].current_len_ = 0

\* the length of string s is within its capacity and every byte of its
\* buffer at or beyond the length is zero
ZeroPadded(t, s) ==
  /\ s.current_len_ <= t.max_size
  /\ \A j \in 1..t.max_size : j > s.current_len_ => s.buffer_[j] = 0

\* C17: every String of the program's message (after set, failed set and
\* clear) and of the message it deserializes into (from any buffer, in either
\* layout) has a length within MaxSize and only zero bytes beyond the length.
C17_StringZeroPadded ==
  \A i \in 1..NumFields(cfg.msg_type) :
    (Fields(cfg.msg_type)[i].kind = "field" /\ Fields(cfg.msg_type)[i].inner.kind = "string") =>
      /\ ZeroPadded(Fields(cfg.msg_type)[i].inner, msg[i].value_)
      /\ ZeroPadded(Fields(cfg.msg_type)[i].inner, out[i].value_)

\* what the validation of one field is to give: the presence error if there
\* is one; else for a submessage the validation of the inner message when it
\* is set; else the error of the field's own validators
FieldVerdict(t, f) ==
  IF t.kind = "field" /\ t.presence = "Required" /\ ~f.set_
  THEN Error_validation(t.id, "field is required but not set")
  ELSE IF t.kind = "field" /\ t.inner.kind = "message"
  THEN (IF f.set_ THEN Validate(t.inner.name, f.value_) ELSE NoError)
  ELSE CASE t.kind = "field" -> Field_Validate(t, f)
         [] t.kind = "array" -> ArrayField_Validate(t, f)
         [] t.kind = "map" -> MapField_Validate(t, f)

\* the indices of the fields of message m whose validation fails
FailingFields(nm, m) ==
  {i \in 1..NumFields(nm) : IsError(FieldVerdict(Fields(nm)[i], m[i]))}

\* the first error in declaration order, the cross-field hook after the fields
FirstErrorWins(nm, m, e) ==
  IF FailingFields(nm, m) = {} THEN e = MessageHook(nm, m)
  ELSE \E i \in FailingFields(nm, m) :
         /\ \A j \in FailingFields(nm, m) : i <= j
         /\ e = FieldVerdict(Fields(nm)[i], m[i])

UnsetRequired(nm, m) ==
  {i \in 1..NumFields(nm) :
     Fields(nm)[i].kind = "field" /\ Fields(nm)[i].presence = "Required" /\ ~m[i].set_}

\* e is the Validation error that carries the id of the first unset Required
\* field of m
IsPresenceError(nm, m, e) ==
  \E i \in UnsetRequired(nm, m) :
    /\ \A j \in UnsetRequired(nm, m) : i <= j
    /\ e.code = "ValidationFailed" /\ e.field_id = Fields(nm)[i].id

\* every unset Optional field of m passes, whatever its validators
UnsetOptionalPasses(nm, m) ==
  \A i \in 1..NumFields(nm) :
    (Fields(nm)[i].kind = "field" /\ Fields(nm)[i].presence = "Optional" /\ ~m[i].set_) =>
      ~IsError(ValidateField(Fields(nm)[i], m[i]))

\* C19: an unset Required field fails validation with a Validation error
\* carrying the field's id, and Validate of the message returns that error
\* for the first such field; an unset Optional field passes whatever its
\* validators; a TLV payload written from a message with an unset Required
\* field is decoded and then rejected with that same Validation error.
C19_PresenceChecked ==
  /\ \A i \in UnsetRequired(cfg.msg_type, msg) :
       ValidateField(Fields(cfg.msg_type)[i], msg[i]) =
         Error_validation(Fields(cfg.msg_type)[i].id, "field is required but not set")
  /\ (last.op = "Serialize" /\ UnsetRequired(cfg.msg_type, msg) # {}) =>
       IsPresenceError(cfg.msg_type, msg, last.err)
  /\ UnsetOptionalPasses(cfg.msg_type, msg)
  /\ UnsetOptionalPasses(cfg.msg_type, out)
  /\ (/\ last.op = "Deserialize" /\ cfg.serdes = "TLV"
      /\ origin = "SerializeWithoutValidation"
      /\ UnsetRequired(cfg.msg_type, msg) # {}) =>
       /\ IsPresenceError(cfg.msg_type, msg, last.err)
       /\ last.err.message = "field is required but not set"

C19_Witness ==
  /\ cfg.msg_type = "MyMessage" /\ cfg.serdes = "TLV"
  /\ last.op = "Deserialize" /\ origin = "SerializeWithoutValidation"
  /\ ~msg[1].set_ /\ msg[2].set_
  /\ out[2].set_ /\ out[2].value_ = msg[2].value_
  /\ last.err = Error_validation(1, "field is required but not set")

\* tag >> WireTypeBits of a 64-bit tag is the id of a field message type nm
\* declares
DeclaresFieldOf(nm, tag) ==
  \E i \in 1..NumFields(nm) :
    SubSeq(tag, WireTypeBits + 1, 64) =
      SubSeq(TagOf(Fields(nm)[i].id, WireType_Varint), WireTypeBits + 1, 64)

\* C20: a TLV payload whose first tag carries a field id (tag >> 3) that the
\* message type does not declare is refused with the Deserialization error
\* "unknown fields present", whatever the value of the tag: the record is
\* neither skipped nor decoded as a declared field.
C20_UnknownFieldRefused ==
  (/\ last.op = "Deserialize"
   /\ origin.op = "Craft"
   /\ ~DeclaresFieldOf(cfg.msg_type, origin.records[1].tag))
    => last.err = Error_deserialization("unknown fields present")

\* the bytes of the span from the offset of the decode call on
DecodeInput == SubSeq(msg, last.offset + 1, Len(msg))

\* the positions of the bytes without continuation bit
Terminators(input) == {i \in 1..Len(input) : input[i] < 128}

\* bit j (from 1) of the unsigned LEB128 number written in the first t bytes
\* of input: bit ((j - 1) % 7) of the low seven bits of byte (j - 1) \div 7
Leb128Bit(input, t, j) ==
  IF (j - 1) \div 7 < t
  THEN ((input[((j - 1) \div 7) + 1] % 128) \div (2 ^ ((j - 1) % 7))) % 2
  ELSE 0

\* C21: decode returns the value and the number of bytes consumed for a
\* well-formed encoding (a byte without continuation bit among the first ten,
\* the number written fitting 64 bits) and fails in every other case: input
\* ending before such a byte, a tenth byte with continuation bit, a number
\* that needs more than 64 bits.
C21_VarintDecode ==
  last.op = "decode" =>
    IF Terminators(DecodeInput) = {} THEN ~out.ok
    ELSE \E t \in Terminators(DecodeInput) :
           /\ \A u \in Terminators(DecodeInput) : t <= u
           /\ IF t > Varint_max_size THEN ~out.ok
              ELSE IF \E j \in 65..(7 * t) : Leb128Bit(DecodeInput, t, j) = 1 THEN ~out.ok
              ELSE /\ out.ok
                   /\ out.bytes_read = t
                   /\ \A j \in 1..64 : out.value[j] = Leb128Bit(DecodeInput, t, j)

\* the offsets a, a + 1, ..., b - 1
Span(a, b) == a..(b - 1)

\* Where the static layout with alignment A puts an object written at offset
\* o: the offset behind it (end) and the offsets that are to hold zero
\* (zero): padding, the value slot of an unset field, unused element and pair
\* slots, string bytes beyond the length.
RECURSIVE SlackOfValue(_, _, _, _)
RECURSIVE SlackOfFields(_, _, _, _, _)
RECURSIVE SlackOfElements(_, _, _, _, _)
RECURSIVE SlackOfPairs(_, _, _, _, _)

SlackOfValue(A, t, v, o) ==
  CASE t.kind = "scalar" ->
         LET p == calculate_padding(A, t.width, o)
         IN  [end |-> o + p + t.width, zero |-> Span(o, o + p)]
    [] t.kind = "string" ->
         LET p == calculate_padding(A, SizeofLength, o)
             d == o + p + SizeofLength
         IN  [end |-> d + t.max_size,
              zero |-> Span(o, o + p) \cup Span(d + v.current_len_, d + t.max_size)]
    [] t.kind = "message" ->
         LET p == calculate_padding(A, A, o)
             r == SlackOfFields(A, t.name, v, 1, o + p + SizeofMessageId)
         IN  [end |-> r.end, zero |-> Span(o, o + p) \cup r.zero]
    [] t.kind = "array" ->
         LET p == calculate_padding(A, SizeofLength, o)
             live == SlackOfElements(A, t.elem, v, 1, o + p + SizeofLength)
             end == calculate_elements_end_offset(A, t.elem, t.max_size - v.current_len_,
                                                  live.end)
         IN  [end |-> end, zero |-> Span(o, o + p) \cup live.zero \cup Span(live.end, end)]
    [] t.kind = "map" ->
         LET p == calculate_padding(A, SizeofLength, o)
             live == SlackOfPairs(A, t, v, 1, o + p + SizeofLength)
             end == calculate_pairs_end_offset(A, t, t.max_size - v.current_len_, live.end)
         IN  [end |-> end, zero |-> Span(o, o + p) \cup live.zero \cup Span(live.end, end)]

SlackOfField(A, t, f, o) ==
  IF t.kind # "field" THEN SlackOfValue(A, t, f, o)
  ELSE IF f.set_ THEN SlackOfValue(A, t.inner, f.value_, o + 1)
  ELSE [end |-> calculate_value_end_offset(A, t.inner, o + 1),
        zero |-> Span(o + 1, calculate_value_end_offset(A, t.inner, o + 1))]

SlackOfFields(A, nm, m, i, o) ==
  IF i > NumFields(nm) THEN [end |-> o, zero |-> {}]
  ELSE LET a == SlackOfField(A, Fields(nm)[i], m[i], o)
           b == SlackOfFields(A, nm, m, i + 1, a.end)
       IN  [end |-> b.end, zero |-> a.zero \cup b.zero]

SlackOfElements(A, te, v, i, o) ==
  IF i > v.current_len_ THEN [end |-> o, zero |-> {}]
  ELSE LET a == SlackOfValue(A, te, v.items_[i], o)
           b == SlackOfElements(A, te, v, i + 1, a.end)
       IN  [end |-> b.end, zero |-> a.zero \cup b.zero]

SlackOfPairs(A, t, v, i, o) ==
  IF i > v.current_len_ THEN [end |-> o, zero |-> {}]
  ELSE LET k == SlackOfValue(A, t.key, v.items_[i].first, o)
           w == SlackOfValue(A, t.value, v.items_[i].second, k.end)
           b == SlackOfPairs(A, t, v, i + 1, w.end)
       IN  [end |-> b.end, zero |-> k.zero \cup w.zero \cup b.zero]

\* the offsets of the encoding of message m that are to hold zero
SlackOfMessage(A, nm, m) ==
  Span(StandardHeaderSize, PayloadStartOffset(A)) \cup
  SlackOfFields(A, nm, m, 1, PayloadStartOffset(A) + SizeofMessageId).zero

\* C22: after a message is written in a static layout, every padding byte,
\* the value slot of every unset field, every unused array or map slot and
\* every string byte beyond the string's length is zero in the buffer,
\* whatever the buffer held before and whatever the message still holds.
C22_SlackIsZero ==
  last.op = "SerializeWithoutValidation" =>
    \A p \in SlackOfMessage(Alignment(cfg.serdes), cfg.msg_type, msg) :
      p < N => buffer.data[p + 1] = 0

\* C23: MyMessage with f1 and f2 set, written with Aligned4 and no
\* integrity, occupies exactly 20 bytes -- the size of the buffer and the
\* number of bytes written -- and the bytes at offsets 6, 9 and 17 are zero.
C23_AlignedLayoutCheck ==
  (/\ cfg = [msg_type |-> "MyMessage", integrity |-> "None", serdes |-> "Aligned4"]
   /\ last.op = "Serialize" /\ ~IsError(last.err)
   /\ msg[1].set_ /\ msg[2].set_)
    => /\ N = 20
       /\ last.count = 20
       /\ buffer.used_bytes = 20
       /\ \A p \in {6, 9, 17} : buffer.data[p + 1] = 0

\* field i of nm is a scalar, string or submessage field and both crafted
\* records carry its id
RepeatedField(nm, records, i) ==
  /\ Len(records) = 2
  /\ Fields(nm)[i].kind = "field"
  /\ \A k \in 1..2 :
       records[k].tag \in {TagOf(Fields(nm)[i].id, WireType_Varint),
                           TagOf(Fields(nm)[i].id, WireType_LengthDelimited)}

\* what decoding record r alone into a default message leaves in field i
DecodedAlone(nm, r, i) ==
  deserialize_message_payload(nm, RecordBytes(<<r>>, 1), DefaultMessage(nm), 0).v[i]

\* C24: when a TLV payload carries the id of a scalar, string or submessage
\* field twice and is decoded, the field holds what its last occurrence
\* alone gives: nothing of the first occurrence is left.
C24_LastValueWins ==
  (/\ last.op = "Deserialize"
   /\ origin.op = "Craft"
   /\ ~IsError(last.err) \/ last.err.message = "field is required but not set")
    => \A i \in 1..NumFields(cfg.msg_type) :
         RepeatedField(cfg.msg_type, origin.records, i) =>
           out[i] = DecodedAlone(cfg.msg_type, origin.records[2], i)

\* "abc", then "ab"
C24_Witness ==
  /\ last.op = "Deserialize" /\ origin.op = "Craft" /\ ~IsError(last.err)
  /\ cfg.msg_type = "BoxMessage"
  /\ RepeatedField(cfg.msg_type, origin.records, 1)
  /\ origin.records[1].count = 3 /\ origin.records[2].count = 2
  /\ out[1].set_ /\ out[1].value_ = [buffer_ |-> <<97, 98, 0>>, current_len_ |-> 2]

\* the live pairs of a map, in order
LivePairs(m) == [j \in 1..m.current_len_ |-> m.items_[j]] \o <<>>

\* seq without its j-th element
Without(seq, j) ==
  [k \in 1..(Len(seq) - 1) |-> IF k < j THEN seq[k] ELSE seq[k + 1]] \o <<>>

\* the positions of the live pairs of m stored under key
StoredAt(t, m, key) ==
  {j \in 1..m.current_len_ : Value_eq(t.key, m.items_[j].first, key)}

PairSet(m) == {m.items_[j] : j \in 1..m.current_len_}

\* C26: two maps compare equal exactly when they hold the same set of
\* (key, value) pairs, whatever the order of the pairs, and a == b gives
\* what b == a gives.
C26_MapEquality ==
  last.op = "operator==" =>
    /\ last.ret.ab = last.ret.ba
    /\ last.ret.ab <=> PairSet(msg[3]) = PairSet(out[3])

\* what a validator is handed for a value of type t
Checked(t, x) == IF t.kind = "string" THEN String_get(x) ELSE x

\* the verdicts of the validators of t on x, in the order of the pack
ValidatorVerdicts(t, x, id) ==
  [i \in 1..Len(t.validators) |-> Check(t.validators[i], x, id)] \o <<>>

\* the verdicts on the elements of an array, element by element
RECURSIVE ElementVerdicts(_, _, _)
ElementVerdicts(t, a, i) ==
  IF i > a.current_len_ THEN <<>>
  ELSE ValidatorVerdicts(t.elem, Checked(t.elem, a.items_[i]), t.id)
         \o ElementVerdicts(t, a, i + 1)

\* the verdicts on the pairs of a map: key, then value, pair by pair
RECURSIVE PairVerdicts(_, _, _)
PairVerdicts(t, m, i) ==
  IF i > m.current_len_ THEN <<>>
  ELSE ValidatorVerdicts(t.key, Checked(t.key, m.items_[i].first), t.id)
         \o ValidatorVerdicts(t.value, Checked(t.value, m.items_[i].second), t.id)
         \o PairVerdicts(t, m, i + 1)

\* every verdict that takes part in the validation of x, in order: those on
\* the elements first, then those of the validators of t itself
Verdicts(t, x, id) ==
  CASE t.kind \in {"scalar", "string"} -> ValidatorVerdicts(t, Checked(t, x), id)
    [] t.kind = "array" ->
         ElementVerdicts(t, x, 1)
           \o ValidatorVerdicts(t, SubSeq(x.items_, 1, x.current_len_), t.id)
    [] t.kind = "map" ->
         PairVerdicts(t, x, 1)
           \o ValidatorVerdicts(t, SubSeq(x.items_, 1, x.current_len_), t.id)

\* the same rejection, whatever field id it is reported under
SameRejection(a, b) == a.code = b.code /\ a.message = b.message

\* C27: the validation of a scalar, string, array or map succeeds exactly
\* when every validator accepts the value (for an array or map: the
\* validators of its elements accept the elements and its own validators
\* accept the container), and otherwise returns the error of the first
\* validator, in order, that rejects.
C27_FirstFailingValidator ==
  last.op = "Validate" =>
    LET vs == Verdicts(cfg.type, msg, last.field)
        failing == {k \in 1..Len(vs) : IsError(vs[k])}
    IN  IF failing = {} THEN ~IsError(last.err)
        ELSE /\ IsError(last.err)
             /\ \E k \in failing :
                  /\ \A j \in failing : k <= j
                  /\ SameRejection(last.err, vs[k])

\* C28: Deserialize reads no byte outside the used prefix of the buffer: a
\* static-layout frame cut short (a strict prefix of what Serialize wrote)
\* is refused, and no length read from a TLV input takes a subspan outside
\* the input.
C28_ReadsWithinInput ==
  last.op = "Deserialize" =>
    /\ last.err.code # UndefinedBehaviour.code
    /\ (cfg.serdes # "TLV" /\ origin = "Truncate") => IsError(last.err)

\* Deserialize of the buffer into a default-constructed message
IntoDefault ==
  detail_Deserialize(cfg.integrity, cfg.serdes, cfg.msg_type,
                     Memory(buffer, padding), buffer.used_bytes,
                     DefaultMessage(cfg.msg_type))

\* C29: Deserialize into a message that already holds values gives what
\* Deserialize of the same buffer into a default-constructed message gives:
\* the same error or success and, on success, an equal message.
C29_PriorStateIgnored ==
  [][ last'.op = "Deserialize" =>
        /\ last'.err = IntoDefault.err
        /\ ~IsError(last'.err) => Message_eq(cfg.msg_type, out', IntoDefault.v) ]_vars

\* field i of the message wraps a scalar or a string
WrapsValue(i) ==
  /\ Fields(cfg.msg_type)[i].kind = "field"
  /\ Fields(cfg.msg_type)[i].inner.kind \in {"scalar", "string"}

\* the first field, in declaration order, whose validation fails is field i,
\* it is set, and so it is one of its value validators that rejects
ValueRejected(i) ==
  /\ i \in FailingFields(cfg.msg_type, msg)
  /\ \A j \in FailingFields(cfg.msg_type, msg) : i <= j
  /\ msg[i].set_

\* C30: the error of a value validator or of the string capacity check of a
\* scalar or string in Field<Id, ...> carries field_id = Id, both when
\* Field::set refuses a value and when Validate(message) reports the field.
C30_ErrorNamesField ==
  /\ (last.op = "set" /\ IsError(last.err) /\ WrapsValue(last.field))
       => last.err.field_id = Fields(cfg.msg_type)[last.field].id
  /\ last.op = "Validate" =>
       \A i \in 1..NumFields(cfg.msg_type) :
         (WrapsValue(i) /\ ValueRejected(i))
           => last.err.field_id = Fields(cfg.msg_type)[i].id

====
